---- MODULE Spec2Model ----
(***************************************************************************)
(* Verification model of the constellation-generator / humeris domain      *)
(* routines: conjunction screening profiles, the exponential atmosphere    *)
(* and drag model, the Kepler -> Cartesian conversion, force composition   *)
(* and the circular-orbit ground track sampler.                            *)
(*                                                                         *)
(* Every routine is a pure function of its arguments, so each one gets its *)
(* own specification: Init draws the arguments from bounded sets, the      *)
(* actions are the calls (or, for loops, the loop iterations), and the     *)
(* variables of the other routines are parked at "idle".                   *)
(*                                                                         *)
(* Numbers.  Quantities whose rounding cannot change a property are exact  *)
(* rationals over a fixed denominator.  Python floats whose rounding does  *)
(* decide a property (the accumulated elapsed time of the ground track     *)
(* loop) are IEEE-754 binary64 values, kept as exact naturals in units of  *)
(* 2^-FracBits and rounded to MantBits significant bits, ties to even,     *)
(* after every operation.                                                  *)
(***************************************************************************)
EXTENDS Integers, Sequences, FiniteSets, TLC

VARIABLES
    \* conjunction_profiles.py: the arguments and the two calls' results
    miss_distance_m, base_collision_probability, profile_name, prof_out, scr_out,
    \* atmosphere.py, atmospheric_density: the argument, the search bounds, the
    \* position in the function and its result
    altitude_km, lo, hi, atm_pc, atm_out,
    \* atmosphere.py, DragConfig and its users: the arguments and the three results
    drag_config, density, velocity, sma_km, bc_out, acc_out, decay_out,
    \* orbital_mechanics.py, kepler_to_cartesian: the arguments and the result
    kep_in, kep_out,
    \* ground_track.py, compute_ground_track: the arguments, the locals, the position
    \* in the function and its result
    satellite, gt_step, gt_duration, step_seconds, duration_seconds, orbit, elapsed,
    points, gt_pc, gt_out,
    \* force composition: the list of models and the result
    force_models, force_out,
    \* compute_ground_track called twice: the first call's result, and the satellite
    \* record as the caller gave it
    gt_first, gt_given,
    \* ccsds_contracts.py and json_io.py: the arguments of envelope_from_record and its
    \* result; the envelope the caller holds and how the caller altered it; the last
    \* round trip's argument and result and the number of round trips; the envelope file, how it was
    \* altered, and what was read from it
    ccsds_type, ccsds_record, ccsds_ts, env_out, rt_env, env_tamper, rt_arg, rt_out,
    rt_count, ccsds_file, file_tamper, read_out,
    \* replay_bundle.py: the arguments of create_replay_bundle, the text of the bundle
    \* file, how the file was altered, and the result of replay_bundle
    rb_inputs, rb_outputs, rb_software_refs, bundle_file, bundle_tamper, replay_out,
    \* api_contracts.py, evaluate_schema_compatibility: the arguments and the result
    previous_fields, current_fields, migration_notes, version_bumped, compat_out,
    \* mission_digital_twin.py, validate_twin_continuity: the list of states and the result
    states, twin_out,
    \* trade_cost_energy.py, pareto_front_cost_energy: the argument, the outer loop
    \* index, the front so far, the position in the function and its result
    cost_points, pf_i, front, pf_pc, pf_out,
    \* cli.py, _rewrite_legacy_argv: the list the caller holds, its content when the
    \* caller made it, the result of the call, and the result of rewriting that result
    argv, argv_given, rw_out, rw_again,
    \* conjunction_profiles.py, one event evaluated under each profile pack: the results so far
    pack_out,
    \* run_gmat_mirror_compare.py, _update_profile_behavior_history: the output root,
    \* the history file, the arguments and the loaded history of the call in progress,
    \* and the arguments and results of the calls made so far
    out_root, history_file, hist_args, history, hist_calls, hist_paths,
    \* run_gmat_mirror_compare.py, _next_run_dir: index.json, LATEST and the run
    \* directories; per invocation its position, the index it loaded, its run number
    \* and its result
    index_file, latest_file, run_dirs, nrd_pc, nrd_index, run_number, nrd_out,
    \* atmospheric_density at two altitudes h1 <= h2
    h1, h2, density_h1, density_h2

scrVars == <<miss_distance_m, base_collision_probability, profile_name, prof_out, scr_out>>
atmVars == <<altitude_km, lo, hi, atm_pc, atm_out>>
dragVars == <<drag_config, density, velocity, sma_km, bc_out, acc_out, decay_out>>
kepVars == <<kep_in, kep_out>>
gtVars == <<satellite, gt_step, gt_duration, step_seconds, duration_seconds, orbit, elapsed,
            points, gt_pc, gt_out>>

forceVars == <<force_models, force_out>>

restartVars == <<gt_first, gt_given>>

ccsdsVars == <<ccsds_type, ccsds_record, ccsds_ts, env_out, rt_env, env_tamper, rt_arg, rt_out,
               rt_count, ccsds_file, file_tamper, read_out>>

bundleVars == <<rb_inputs, rb_outputs, rb_software_refs, bundle_file, bundle_tamper, replay_out>>

schemaVars == <<previous_fields, current_fields, migration_notes, version_bumped, compat_out>>

twinVars == <<states, twin_out>>

paretoVars == <<cost_points, pf_i, front, pf_pc, pf_out>>

argvVars == <<argv, argv_given, rw_out, rw_again>>

packVars == <<pack_out>>

histVars == <<out_root, history_file, hist_args, history, hist_calls, hist_paths>>

runDirVars == <<index_file, latest_file, run_dirs, nrd_pc, nrd_index, run_number, nrd_out>>

monoVars == <<h1, h2, density_h1, density_h2>>

vars == <<scrVars, atmVars, dragVars, kepVars, gtVars, forceVars, restartVars, ccsdsVars, bundleVars, schemaVars, twinVars, paretoVars, argvVars, packVars, histVars, runDirVars, monoVars>>

Min(a, b) == IF a <= b THEN a ELSE b
Max(a, b) == IF a >= b THEN a ELSE b

(***************************************************************************)
(* conjunction_profiles.py                                                 *)
(*                                                                         *)
(* Probabilities are exact rationals over the denominator PcOne * PcScale: *)
(* an input probability p is the integer p * PcOne (PcOne = 10^6, so the   *)
(* inputs have a resolution of 1e-6), and PcScale = 40 makes the products  *)
(* with covariance_scale (quarters) and with 0.7 / 1.3 (tenths) exact.     *)
(* Distances are whole metres.                                             *)
(***************************************************************************)
PcOne == 10^6
PcScale == 4 * 10
BandOne == PcOne * PcScale          \* the probability 1.0 in band units

\* Bounds of the screening inputs.
PcSpread == 2        \* how far around each probe probability the inputs go
MissSpread == 1      \* how far (m) around each threshold the miss distances go

\* Packs of which the aggressive one has the widest miss distance threshold.
ProfilePacks_aggressive_widest ==
    [ conservative |-> [profile_id |-> "conservative", version |-> "v1",
                        threshold_m |-> 25000, covariance_scale4 |-> 6],
      nominal      |-> [profile_id |-> "nominal", version |-> "v1",
                        threshold_m |-> 15000, covariance_scale4 |-> 4],
      aggressive   |-> [profile_id |-> "aggressive", version |-> "v1",
                        threshold_m |-> 30000, covariance_scale4 |-> 3] ]

\* _PROFILE_PACKS: covariance_scale is kept in quarters (1.5 = 6/4).
ProfilePacks ==
    [ conservative |-> [profile_id |-> "conservative", version |-> "v1",
                        threshold_m |-> 25000, covariance_scale4 |-> 6],
      nominal      |-> [profile_id |-> "nominal", version |-> "v1",
                        threshold_m |-> 15000, covariance_scale4 |-> 4],
      aggressive   |-> [profile_id |-> "aggressive", version |-> "v1",
                        threshold_m |-> 8000, covariance_scale4 |-> 3] ]

KnownProfiles == DOMAIN ProfilePacks

\* The names a caller may pass: the three keys and near misses of them.
ProfileNames == KnownProfiles \cup {"Conservative", "NOMINAL", "aggressive ", "default", ""}

\* What a call variable holds: None before the call, Idle when the routine is not the
\* one under study, else the value returned or the exception raised.
None == [kind |-> "none"]
Idle == [kind |-> "idle"]
ValueError == [kind |-> "ValueError"]
ZeroDivisionError == [kind |-> "ZeroDivisionError"]

\* A profile that falls back to the nominal pack instead of raising.
get_screening_profile_fallback(name) ==
    IF name \in DOMAIN ProfilePacks THEN ProfilePacks[name] ELSE ProfilePacks["nominal"]

\* get_screening_profile: the pack, or ValueError for a KeyError.
get_screening_profile(name) ==
    IF name \in DOMAIN ProfilePacks THEN ProfilePacks[name] ELSE ValueError

\* scaled_pc without the clamp to [0, 1].
scaled_pc_unclamped(base, profile) ==
    base * profile.covariance_scale4 * 10

\* scaled_pc = min(1.0, max(0.0, base * covariance_scale)), in band units.
scaled_pc(base, profile) ==
    Min(BandOne, Max(0, base * profile.covariance_scale4 * 10))

\* lower = max(0.0, scaled_pc * 0.7)
band_lower(scaled) == Max(0, (scaled * 7) \div 10)

\* upper = min(1.0, scaled_pc * 1.3)
band_upper(scaled) == Min(BandOne, (scaled * 13) \div 10)

\* A flag level of 1e-3.
FlagPc_1e3 == (BandOne \div 1000)

\* 1e-4 in band units.
FlagPc == (BandOne \div 10000)

\* evaluate_profiled_screening: the returned dict, or ValueError.
evaluate_profiled_screening(miss, base, name) ==
    LET profile == get_screening_profile(name) IN
    IF profile = ValueError THEN ValueError
    ELSE LET scaled == scaled_pc(base, profile)
             lower == band_lower(scaled)
             upper == band_upper(scaled)
             flagged == (miss <= profile.threshold_m) \/ (upper >= FlagPc)
         IN [kind |-> "result",
             profile |-> profile,
             input |-> [miss_distance_m |-> miss, base_collision_probability |-> base],
             flagged |-> flagged,
             lower |-> lower, nominal |-> scaled, upper |-> upper]

\* Probe probabilities: around 0, around the 1e-4 flag level (base values 50..110 e-6
\* cover 1e-4 / (1.3 * scale) for the three scales), and around k/8 for k = 0..12.
BasePcProbes == {0, 51, 76, 102} \cup {(k * PcOne) \div 8 : k \in 1..12}
BasePcs == {p + d : p \in BasePcProbes, d \in (-PcSpread)..PcSpread}

MissDistances ==
    {t + d : t \in {ProfilePacks[n].threshold_m : n \in KnownProfiles} \cup {0, 40000},
             d \in (-MissSpread)..MissSpread}

(***************************************************************************)
(* atmosphere.py: the exponential atmosphere                               *)
(*                                                                         *)
(* Altitudes are exact multiples of 1/AltRes km: the integer x stands for  *)
(* x / AltRes km.  A density is kept as the unevaluated expression         *)
(* rho_base * exp(-dh / scale_height) of the row it was read from.         *)
(***************************************************************************)
AltRes == 2          \* altitude inputs per km
AltMargin == 3       \* how many km outside [100, 2000] the inputs go

\* _ATMOSPHERE_TABLE, rows 0..23: base altitude (km), base density as
\* rho_m * 10^rho_e kg/m^3, scale height in metres.
AtmosphereRows ==
    << <<100, 5297, -10, 5877>>,    <<150, 2070, -12, 22523>>,
       <<200, 2541, -13, 53298>>,   <<250, 6967, -14, 68019>>,
       <<300, 2508, -14, 76680>>,   <<350, 1172, -14, 84852>>,
       <<400, 6097, -15, 89412>>,   <<450, 3510, -15, 97498>>,
       <<500, 2150, -15, 112458>>,  <<600, 8620, -16, 133060>>,
       <<700, 3614, -16, 150580>>,  <<800, 1454, -16, 164441>>,
       <<900, 5811, -17, 175579>>,  <<1000, 2302, -17, 188667>>,
       <<1100, 9661, -18, 200000>>, <<1200, 4297, -18, 210000>>,
       <<1300, 2036, -18, 218000>>, <<1400, 1024, -18, 225000>>,
       <<1500, 5448, -19, 231000>>, <<1600, 3059, -19, 236000>>,
       <<1700, 1806, -19, 240000>>, <<1800, 1115, -19, 243000>>,
       <<1900, 7170, -20, 245000>>, <<2000, 4789, -20, 247000>> >>

\* _ATMOSPHERE_TABLE[i] with the source's 0-based index.
AtmosphereTable ==
    [i \in 0..(Len(AtmosphereRows) - 1) |->
        [h_base |-> AtmosphereRows[i + 1][1],
         rho_m |-> AtmosphereRows[i + 1][2], rho_e |-> AtmosphereRows[i + 1][3],
         scale_height_m |-> AtmosphereRows[i + 1][4]]]

LastRow == Len(AtmosphereRows) - 1                 \* len(_ATMOSPHERE_TABLE) - 1

\* The range test of line 82, with the bounds' comparisons weakened to the open range.
OutOfRange_open(alt) ==
    \/ alt <= AtmosphereTable[0].h_base * AltRes
    \/ alt >= AtmosphereTable[LastRow].h_base * AltRes

\* altitude_km < table[0][0] or altitude_km > table[-1][0]
OutOfRange(alt) ==
    \/ alt < AtmosphereTable[0].h_base * AltRes
    \/ alt > AtmosphereTable[LastRow].h_base * AltRes

\* The iteration with "hi = mid - 1" in the else branch of line 95.
BracketStep_hi_below_mid(l, h, alt) ==
    LET mid == (l + h) \div 2 IN
    IF AtmosphereTable[mid].h_base * AltRes <= alt THEN <<mid, h>> ELSE <<l, mid - 1>>

\* One iteration of the bracket loop: the new <<lo, hi>>.
BracketStep(l, h, alt) ==
    LET mid == (l + h) \div 2 IN
    IF AtmosphereTable[mid].h_base * AltRes <= alt THEN <<mid, h>> ELSE <<l, mid>>

\* The whole loop "while lo < hi - 1": the final <<lo, hi>>.
RECURSIVE BracketSearch(_, _, _)
BracketSearch(l, h, alt) ==
    IF l < h - 1
    THEN LET n == BracketStep(l, h, alt) IN BracketSearch(n[1], n[2], alt)
    ELSE <<l, h>>

\* Lines 97-98: rho_base * exp(-(altitude_km - h_base) / scale_height) of row l.
DensityOfRow(l, alt) ==
    [kind |-> "density", row |-> l,
     rho_m |-> AtmosphereTable[l].rho_m, rho_e |-> AtmosphereTable[l].rho_e,
     dh |-> alt - AtmosphereTable[l].h_base * AltRes,
     scale_height_m |-> AtmosphereTable[l].scale_height_m]

\* atmospheric_density as one call.
atmospheric_density(alt) ==
    IF OutOfRange(alt) THEN ValueError
    ELSE DensityOfRow(BracketSearch(0, LastRow, alt)[1], alt)

Altitudes ==
    ((AtmosphereTable[0].h_base - AltMargin) * AltRes) ..
    ((AtmosphereTable[LastRow].h_base + AltMargin) * AltRes)

\* atmospheric_density, line 82-89: raise, or set up the search.
AtmCheckRange ==
    /\ atm_pc = "entry"
    /\ IF OutOfRange(altitude_km)
       THEN /\ atm_pc' = "raised"
            /\ atm_out' = ValueError
            /\ UNCHANGED <<lo, hi>>
       ELSE /\ atm_pc' = "loop"
            /\ lo' = 0
            /\ hi' = LastRow
            /\ UNCHANGED atm_out
    /\ UNCHANGED altitude_km

\* Lines 90-95: one iteration of the loop.
AtmSearchStep ==
    /\ atm_pc = "loop"
    /\ lo < hi - 1
    /\ lo' = BracketStep(lo, hi, altitude_km)[1]
    /\ hi' = BracketStep(lo, hi, altitude_km)[2]
    /\ UNCHANGED <<altitude_km, atm_pc, atm_out>>

\* Lines 97-98: the loop is over; read row lo and return.
AtmReturn ==
    /\ atm_pc = "loop"
    /\ ~(lo < hi - 1)
    /\ atm_pc' = "returned"
    /\ atm_out' = DensityOfRow(lo, altitude_km)
    /\ UNCHANGED <<altitude_km, lo, hi>>

(***************************************************************************)
(* atmosphere.py: DragConfig, drag_acceleration, semi_major_axis_decay_rate*)
(*                                                                         *)
(* cd is in tenths, area_m2 and mass_kg are whole numbers; the density     *)
(* argument of drag_acceleration is a whole number of 1e-15 kg/m^3 and the *)
(* velocity a whole number of km/s.  Results are exact fractions num/den.  *)
(***************************************************************************)
MaxArea == 2         \* area_m2 ranges over -1..MaxArea
MaxMass == 2         \* mass_kg ranges over -1..MaxMass

Number(n, d) == [kind |-> "number", num |-> n, den |-> d]

\* DragConfig.ballistic_coefficient: cd * area_m2 / mass_kg. Python's float division
\* raises ZeroDivisionError for a zero divisor and divides by anything else.
ballistic_coefficient(cfg) ==
    IF cfg.mass_kg = 0 THEN ZeroDivisionError
    ELSE Number(cfg.cd10 * cfg.area_m2, 10 * cfg.mass_kg)

\* drag_acceleration: 0.5 * density * velocity**2 * B_c
drag_acceleration(rho, v, cfg) ==
    LET bc == ballistic_coefficient(cfg) IN
    IF bc.kind # "number" THEN bc
    ELSE Number(rho * v * v * bc.num, 2 * bc.den)

R_EARTH_KM == 6371

\* semi_major_axis_decay_rate(a, e, cfg) for a = a_km * 1000 m:
\*   h_km = (a - R_EARTH) / 1000; v = sqrt(MU / a); rho = atmospheric_density(h_km);
\*   return -rho * v * B_c * a.
\* sqrt(MU / a) raises ZeroDivisionError for a = 0 and ValueError for a < 0; it is
\* irrational, so the product is kept by its factors: rho, a and B_c, with v > 0.
semi_major_axis_decay_rate(a_km, cfg) ==
    LET h == (a_km - R_EARTH_KM) * AltRes
        rho == atmospheric_density(h)
        bc == ballistic_coefficient(cfg)
    IN IF a_km = 0 THEN ZeroDivisionError
       ELSE IF a_km < 0 THEN ValueError
       ELSE IF rho = ValueError THEN ValueError
       ELSE IF bc.kind # "number" THEN bc
       ELSE [kind |-> "number", rho |-> rho, a_km |-> a_km,
             num |-> -bc.num, den |-> bc.den]

DragConfigs ==
    [cd10 : {22}, area_m2 : (-1)..MaxArea, mass_kg : (-1)..MaxMass]

DragDensities == {0, 6097}            \* none, and the 400 km base density 6.097e-12
DragVelocities == {0, 8}               \* km/s
DragSmaKm == {-1, 0, R_EARTH_KM + 99, R_EARTH_KM + 100, R_EARTH_KM + 400,
              R_EARTH_KM + 2000, R_EARTH_KM + 2001}

CallBallisticCoefficient ==
    /\ bc_out = None
    /\ bc_out' = ballistic_coefficient(drag_config)
    /\ UNCHANGED <<drag_config, density, velocity, sma_km, acc_out, decay_out>>

CallDragAcceleration ==
    /\ acc_out = None
    /\ acc_out' = drag_acceleration(density, velocity, drag_config)
    /\ UNCHANGED <<drag_config, density, velocity, sma_km, bc_out, decay_out>>

CallDecayRate ==
    /\ decay_out = None
    /\ decay_out' = semi_major_axis_decay_rate(sma_km, drag_config)
    /\ UNCHANGED <<drag_config, density, velocity, sma_km, bc_out, acc_out>>

(***************************************************************************)
(* orbital_mechanics.py: kepler_to_cartesian                               *)
(*                                                                         *)
(* a is a whole number of length units, e the fraction e_n / EScale, and   *)
(* an angle is a point <<c, s>> of the circle c^2 + s^2 = TrigScale^2, so  *)
(* that cos = c / TrigScale and sin = s / TrigScale are exact.  MU is kept *)
(* as a symbol: p_factor^2 is returned in units of MU.                     *)
(***************************************************************************)
EScale == 4          \* eccentricities are multiples of 1 / EScale
EOver == 2           \* eccentricities go up to (EScale + EOver) / EScale
AMax == 2            \* a ranges over -1..AMax
TrigScale == 5       \* angles are the integer points of the circle of this radius

Angles ==
    {p \in ((-TrigScale)..TrigScale) \X ((-TrigScale)..TrigScale) :
        p[1] * p[1] + p[2] * p[2] = TrigScale * TrigScale}
Inclinations == {p \in Angles : p[2] >= 0}                 \* 0 .. pi
NodeAngles == {p \in Angles : p[1] >= 0 /\ p[2] >= 0}      \* 0 .. pi/2

\* 1 + e * cos(nu), over EScale * TrigScale.
RadiusDenominator(en, nu) == EScale * TrigScale + en * nu[1]

\* A semi-latus rectum computed with e**2 - 1.
SemiLatus_swapped(a, en) == a * (en * en - EScale * EScale)

\* a * (1 - e**2), over EScale^2.
SemiLatus(a, en) == a * (EScale * EScale - en * en)

\* The rotation matrix of lines 65-69, over TrigScale^3, rows and columns 1..3.
Rotation(i, O, o) ==
    LET T == TrigScale
        cO == O[1]  sO == O[2]  co == o[1]  so == o[2]  ci == i[1]  si == i[2]
    IN << << cO * co * T - sO * so * ci, -cO * so * T - sO * co * ci, sO * si * T >>,
          << sO * co * T + cO * so * ci, -sO * so * T + cO * co * ci, -cO * si * T >>,
          << so * si * T, co * si * T, ci * T * T >> >>

\* kepler_to_cartesian.  Line 48 divides by 1 + e*cos(nu) and line 50 by a*(1 - e**2)
\* before taking the square root: a zero divisor raises ZeroDivisionError, a negative
\* radicand ValueError.  Otherwise
\*   r        = r_num / r_den
\*   p_factor = sqrt(MU * p2_num / p2_den)
\*   pos_eci  = r * pos_dir / TrigScale^4
\*   vel_eci  = p_factor * vel_dir / (EScale * TrigScale^4)
kepler_to_cartesian(k) ==
    LET den1 == RadiusDenominator(k.e, k.nu)
        p == SemiLatus(k.a, k.e)
        rot == Rotation(k.i, k.Omega, k.omega)
        pqw == << k.nu[1], k.nu[2], 0 >>
        vqw == << -k.nu[2] * EScale, k.e * TrigScale + k.nu[1] * EScale, 0 >>
    IN IF den1 = 0 THEN ZeroDivisionError
       ELSE IF p = 0 THEN ZeroDivisionError
       ELSE IF p < 0 THEN ValueError
       ELSE [kind |-> "state",
             r_num |-> p * TrigScale, r_den |-> EScale * den1,
             p2_num |-> EScale * EScale, p2_den |-> p,
             pos_dir |-> [j \in 1..3 |->
                 rot[j][1] * pqw[1] + rot[j][2] * pqw[2] + rot[j][3] * pqw[3]],
             vel_dir |-> [j \in 1..3 |->
                 rot[j][1] * vqw[1] + rot[j][2] * vqw[2] + rot[j][3] * vqw[3]]]

KeplerInputs ==
    [a : (-1)..AMax, e : 0..(EScale + EOver),
     i : Inclinations, Omega : NodeAngles, omega : NodeAngles, nu : Angles]

CallKeplerToCartesian ==
    /\ kep_out = None
    /\ kep_out' = kepler_to_cartesian(kep_in)
    /\ UNCHANGED kep_in

(***************************************************************************)
(* Python floats (IEEE-754 binary64)                                       *)
(*                                                                         *)
(* A natural number of any size is a sequence of limbs, least significant  *)
(* first, each in 0..LimbBase-1, with no zero limb at the top (zero is the *)
(* empty sequence).  The magnitude of a float is the natural number of     *)
(* 2^-FracBits units it holds; every float operation computes the exact    *)
(* result and rounds it to MantBits significant bits, ties to even.        *)
(***************************************************************************)
MantBits == 53       \* significand of a binary64
LimbBits == 10       \* bits per limb
FracBits == 82       \* the unit of a magnitude is 2^-FracBits (the ulp of 1e-9)
GuardBits == 2       \* extra quotient bits kept by a division before rounding
LimbBase == 2^LimbBits

RECURSIVE NatOf(_)
NatOf(n) == IF n = 0 THEN <<>> ELSE <<n % LimbBase>> \o NatOf(n \div LimbBase)

RECURSIVE NatToInt(_)
NatToInt(X) == IF X = <<>> THEN 0 ELSE Head(X) + LimbBase * NatToInt(Tail(X))

RECURSIVE NatNorm(_)
NatNorm(X) ==
    IF X = <<>> THEN <<>>
    ELSE IF X[Len(X)] = 0 THEN NatNorm(SubSeq(X, 1, Len(X) - 1)) ELSE X

Limb(X, i) == IF i <= Len(X) THEN X[i] ELSE 0

RECURSIVE NatAddFrom(_, _, _, _)
NatAddFrom(X, Y, i, c) ==
    IF i > Len(X) /\ i > Len(Y) THEN (IF c = 0 THEN <<>> ELSE <<c>>)
    ELSE LET t == Limb(X, i) + Limb(Y, i) + c
         IN <<t % LimbBase>> \o NatAddFrom(X, Y, i + 1, t \div LimbBase)

NatAdd(X, Y) == NatAddFrom(X, Y, 1, 0)

\* X - Y for X >= Y.
RECURSIVE NatSubFrom(_, _, _, _)
NatSubFrom(X, Y, i, b) ==
    IF i > Len(X) THEN <<>>
    ELSE LET t == X[i] - Limb(Y, i) - b
         IN IF t < 0 THEN <<t + LimbBase>> \o NatSubFrom(X, Y, i + 1, 1)
            ELSE <<t>> \o NatSubFrom(X, Y, i + 1, 0)

NatSub(X, Y) == NatNorm(NatSubFrom(X, Y, 1, 0))

\* -1, 0, 1 as X < Y, X = Y, X > Y.
RECURSIVE NatCmpFrom(_, _, _)
NatCmpFrom(X, Y, i) ==
    IF i = 0 THEN 0
    ELSE IF X[i] < Y[i] THEN -1
    ELSE IF X[i] > Y[i] THEN 1
    ELSE NatCmpFrom(X, Y, i - 1)

NatCmp(X, Y) ==
    IF Len(X) < Len(Y) THEN -1
    ELSE IF Len(X) > Len(Y) THEN 1
    ELSE NatCmpFrom(X, Y, Len(X))

\* X * k for a small k >= 0 (k * LimbBase must fit a machine integer).
RECURSIVE NatMulFrom(_, _, _, _)
NatMulFrom(X, k, i, c) ==
    IF i > Len(X) THEN NatOf(c)
    ELSE LET t == X[i] * k + c
         IN <<t % LimbBase>> \o NatMulFrom(X, k, i + 1, t \div LimbBase)

NatMulSmall(X, k) == IF k = 0 THEN <<>> ELSE NatMulFrom(X, k, 1, 0)

\* Quotient and remainder of X by a small d > 0, limb by limb from the top.
RECURSIVE NatDivFrom(_, _, _, _)
NatDivFrom(X, d, i, rem) ==
    IF i = 0 THEN [q |-> <<>>, r |-> rem]
    ELSE LET cur == rem * LimbBase + X[i]
             rest == NatDivFrom(X, d, i - 1, cur % d)
         IN [q |-> rest.q \o <<cur \div d>>, r |-> rest.r]

NatDivSmall(X, d) ==
    LET qr == NatDivFrom(X, d, Len(X), 0) IN [q |-> NatNorm(qr.q), r |-> qr.r]

NatShiftLeft(X, p) ==
    IF X = <<>> THEN <<>>
    ELSE [i \in 1..(p \div LimbBits) |-> 0] \o NatMulSmall(X, 2^(p % LimbBits))

NatShiftRight(X, p) ==
    IF Len(X) <= p \div LimbBits THEN <<>>
    ELSE NatDivSmall(SubSeq(X, (p \div LimbBits) + 1, Len(X)), 2^(p % LimbBits)).q

RECURSIVE IntBitLen(_)
IntBitLen(n) == IF n = 0 THEN 0 ELSE 1 + IntBitLen(n \div 2)

NatBitLen(X) == IF X = <<>> THEN 0 ELSE (Len(X) - 1) * LimbBits + IntBitLen(X[Len(X)])

\* Bit i (from 0) of X.
NatBit(X, i) == (Limb(X, (i \div LimbBits) + 1) \div 2^(i % LimbBits)) % 2

\* Whether X has a one below bit p.
NatAnyBelow(X, p) ==
    \/ \E j \in 1..Min(Len(X), p \div LimbBits) : X[j] # 0
    \/ Limb(X, (p \div LimbBits) + 1) % 2^(p % LimbBits) # 0

\* X rounded to MantBits significant bits, to nearest, ties to even.
RoundMant(X) ==
    LET p == NatBitLen(X) - MantBits IN
    IF p <= 0 THEN X
    ELSE LET q == NatShiftRight(X, p)
             up == NatBit(X, p - 1) = 1 /\ (NatAnyBelow(X, p - 1) \/ NatBit(X, p) = 1)
         IN NatShiftLeft(IF up THEN NatAdd(q, <<1>>) ELSE q, p)

\* The float nearest to N / (d1 * d2) for a natural N and small d1, d2 > 0: the
\* quotient is taken to FracBits + GuardBits binary places, a lost remainder is kept
\* as a sticky last bit, and the result is rounded.
FloatQuot(N, d1, d2) ==
    LET a == NatDivSmall(NatShiftLeft(N, FracBits + GuardBits), d1)
        b == NatDivSmall(a.q, d2)
        q == IF (a.r # 0 \/ b.r # 0) /\ NatBit(b.q, 0) = 0 THEN NatAdd(b.q, <<1>>) ELSE b.q
    IN NatShiftRight(RoundMant(q), GuardBits)

\* x + y for floats x, y >= 0.
FloatAdd(x, y) == RoundMant(NatAdd(x, y))

\* k * x for a small natural k and a float x >= 0.
FloatMulSmall(k, x) == RoundMant(NatMulSmall(x, k))

\* modf for x >= 0: the integer part (a machine integer) and the fraction (a float).
FloatIntPart(x) == NatToInt(NatShiftRight(x, FracBits))
FloatFracPart(x) == NatSub(x, NatShiftLeft(NatShiftRight(x, FracBits), FracBits))

\* 0.5
FloatHalf == NatShiftLeft(<<1>>, FracBits - 1)

(***************************************************************************)
(* ground_track.py: compute_ground_track                                   *)
(*                                                                         *)
(* A timedelta is [seconds, microseconds] with 0 <= microseconds < 10^6    *)
(* (days are folded into seconds, which may be negative); a datetime is    *)
(* the timedelta by which it follows the start argument.  A signed float   *)
(* is [neg, mag].  Positions and velocities of the satellite are whole     *)
(* numbers of 1000 km and km/s; its epoch is <<>> for None.                *)
(***************************************************************************)
MaxSteps == 28       \* durations go up to MaxSteps + 1 steps

Mega == 10^6         \* microseconds per second

Timedelta(sec, us) == [seconds |-> sec, microseconds |-> us]

TdNeg(td) == td.seconds < 0
TdZero(td) == td.seconds = 0 /\ td.microseconds = 0
TdLeq(a, b) ==
    a.seconds < b.seconds \/ (a.seconds = b.seconds /\ a.microseconds <= b.microseconds)

\* timedelta * int and timedelta + microseconds, for non-negative values.
TdTimes(td, k) ==
    Timedelta(k * td.seconds + (k * td.microseconds) \div Mega, (k * td.microseconds) % Mega)
TdPlusUs(td, us) ==
    Timedelta(td.seconds + (td.microseconds + us) \div Mega, (td.microseconds + us) % Mega)
TdLessUs(td) ==
    IF td.microseconds > 0 THEN Timedelta(td.seconds, td.microseconds - 1)
    ELSE Timedelta(td.seconds - 1, Mega - 1)

\* The number of microseconds in td, as a natural magnitude.
TdMicros(td) ==
    IF td.seconds >= 0
    THEN NatAdd(NatMulSmall(NatOf(td.seconds), Mega), NatOf(td.microseconds))
    ELSE NatSub(NatMulSmall(NatOf(-td.seconds), Mega), NatOf(td.microseconds))

\* timedelta.total_seconds(): the microseconds divided by 10^6, correctly rounded.
total_seconds(td) == [neg |-> TdNeg(td), mag |-> FloatQuot(TdMicros(td), Mega, 1)]

\* timedelta(seconds=x) for a float x >= 0, as CPython builds it: the integer part of
\* x is exact; the fraction is multiplied by 1e6 in float arithmetic, its integer part
\* is added, and what is left is rounded to a whole microsecond, a tie going to the
\* even total.
timedelta_of_seconds(x) ==
    LET whole_s == FloatIntPart(x)
        f == FloatMulSmall(Mega, FloatFracPart(x))
        whole_us == FloatIntPart(f)
        leftover == NatCmp(FloatFracPart(f), FloatHalf)
        round_up == leftover = 1 \/ (leftover = 0 /\ whole_us % 2 = 1)
        us == whole_us + (IF round_up THEN 1 ELSE 0)
    IN Timedelta(whole_s + us \div Mega, us % Mega)

\* The literal 1e-9.
Epsilon == FloatQuot(<<1>>, 1000, Mega)

\* A guard that lets a zero step through.
StepRejected_negative_only(step_s) == step_s.neg

\* step_seconds <= 0
StepRejected(step_s) == step_s.neg \/ step_s.mag = <<>>

\* elapsed <= duration_seconds + 1e-9, for elapsed >= 0.  A negative duration is
\* below -1e-9 (it is at most -1e-6), so the sum is negative and the test fails.
LoopContinues(el, duration_s) ==
    ~duration_s.neg /\ NatCmp(el, FloatAdd(duration_s.mag, Epsilon)) <= 0

\* Lines 79-106: the orbit derived from the satellite record.  a^2 = |r|^2 and
\* h = r x v are exact; the mean motion sqrt(mu / a^3), the inclination
\* acos(hz / |h|) and the anomaly at start are functions of them and of
\* raan_deg, true_anomaly_deg and start - epoch, which are kept as they are.
OrbitOf(sat) ==
    LET p == sat.position_eci
        v == sat.velocity_eci
        h == << p[2] * v[3] - p[3] * v[2], p[3] * v[1] - p[1] * v[3],
                p[1] * v[2] - p[2] * v[1] >>
    IN [a2 |-> p[1] * p[1] + p[2] * p[2] + p[3] * p[3],
        hz |-> h[3], h2 |-> h[1] * h[1] + h[2] * h[2] + h[3] * h[3],
        raan_deg |-> sat.raan_deg, nu_0_deg |-> sat.true_anomaly_deg,
        epoch_offset |-> sat.epoch]

\* Lines 112-136: the point sampled at elapsed.  Its coordinates are the geodetic
\* image of kepler_to_cartesian(a, 0, inc, raan, 0, nu_at_start + n * elapsed) at the
\* sidereal time of current_time: a function of the orbit, elapsed and the time.
GroundTrackPoint(orb, el) ==
    [time |-> timedelta_of_seconds(el), elapsed |-> el, orbit |-> orb]

Satellites ==
    { [position_eci |-> <<7, 0, 0>>, velocity_eci |-> <<0, 5, 6>>,
       raan_deg |-> 0, true_anomaly_deg |-> 0, epoch |-> <<>>] }

GtSteps ==
    { Timedelta(-60, 0), Timedelta(-1, 999999), Timedelta(0, 0),
      Timedelta(0, 300000), Timedelta(60, 0), Timedelta(86400, 100000) }

\* For a positive step: k steps, k steps and a microsecond, a microsecond short of
\* k + 1 steps.  For the others: nothing, and ninety minutes.
GtDurations(st) ==
    IF TdNeg(st) \/ TdZero(st) THEN {Timedelta(0, 0), Timedelta(5400, 0)}
    ELSE UNION {{TdTimes(st, k), TdPlusUs(TdTimes(st, k), 1), TdLessUs(TdTimes(st, k + 1))}
                : k \in 0..MaxSteps}

\* Lines 72-109: the step check, then the set-up of the loop.
GtEntry ==
    /\ gt_pc = "entry"
    /\ step_seconds' = total_seconds(gt_step)
    /\ IF StepRejected(total_seconds(gt_step))
       THEN /\ gt_pc' = "raised"
            /\ gt_out' = ValueError
            /\ UNCHANGED <<duration_seconds, orbit, elapsed, points>>
       ELSE /\ gt_pc' = "loop"
            /\ duration_seconds' = total_seconds(gt_duration)
            /\ orbit' = OrbitOf(satellite)
            /\ elapsed' = <<>>
            /\ points' = <<>>
            /\ UNCHANGED gt_out
    /\ UNCHANGED <<satellite, gt_step, gt_duration>>

\* An iteration that advances the caller's satellite record in place.
GtLoopStep_advancing_satellite ==
    /\ gt_pc = "loop"
    /\ LoopContinues(elapsed, duration_seconds)
    /\ points' = Append(points, GroundTrackPoint(orbit, elapsed))
    /\ elapsed' = FloatAdd(elapsed, step_seconds.mag)
    /\ satellite' = [satellite EXCEPT !.true_anomaly_deg = @ + 1]
    /\ UNCHANGED <<gt_step, gt_duration, step_seconds, duration_seconds,
                   orbit, gt_pc, gt_out>>

\* Lines 111-138: one iteration of the sampling loop.
GtLoopStep ==
    /\ gt_pc = "loop"
    /\ LoopContinues(elapsed, duration_seconds)
    /\ points' = Append(points, GroundTrackPoint(orbit, elapsed))
    /\ elapsed' = FloatAdd(elapsed, step_seconds.mag)
    /\ UNCHANGED <<satellite, gt_step, gt_duration, step_seconds, duration_seconds,
                   orbit, gt_pc, gt_out>>

\* Line 140: the loop test failed; return the list.
GtReturn ==
    /\ gt_pc = "loop"
    /\ ~LoopContinues(elapsed, duration_seconds)
    /\ gt_pc' = "returned"
    /\ gt_out' = [kind |-> "points", points |-> points]
    /\ UNCHANGED <<satellite, gt_step, gt_duration, step_seconds, duration_seconds,
                   orbit, elapsed, points>>

\* The caller keeps the result and calls again with the same satellite object, start,
\* duration and step; the locals of the new call are fresh.
GtCallAgain ==
    /\ gt_pc \in {"returned", "raised"}
    /\ gt_first = None
    /\ gt_first' = gt_out
    /\ gt_pc' = "entry"
    /\ gt_out' = None
    /\ step_seconds' = None /\ duration_seconds' = None /\ orbit' = None
    /\ elapsed' = <<>> /\ points' = <<>>
    /\ UNCHANGED <<satellite, gt_step, gt_duration, gt_given>>

(***************************************************************************)
(* Force composition (the Force Model Registry): compose_forces            *)
(*                                                                         *)
(* A force model is a constant acceleration: a name and a vector of three  *)
(* signed floats.  A component is given as a whole number k of 1e-6 m/s^2  *)
(* and is the float literal k e-6.                                         *)
(***************************************************************************)
MaxModels == 3       \* the longest list composed
AccMax == 5          \* components are multiples of 1e-6 up to AccMax e-6 in magnitude

SFloat(n, m) == [neg |-> n /\ m # <<>>, mag |-> m]
SZero == SFloat(FALSE, <<>>)

\* The float literal "k e-6".
MicroFloat(k) == SFloat(k < 0, FloatQuot(NatOf(IF k < 0 THEN -k ELSE k), Mega, 1))

\* x + y for signed x, y: the float if rounded, the real number otherwise.
SignedSum(x, y, rounded) ==
    LET Result(X) == IF rounded THEN RoundMant(X) ELSE X IN
    IF x.neg = y.neg THEN SFloat(x.neg, Result(NatAdd(x.mag, y.mag)))
    ELSE IF NatCmp(x.mag, y.mag) >= 0 THEN SFloat(x.neg, Result(NatSub(x.mag, y.mag)))
    ELSE SFloat(y.neg, Result(NatSub(y.mag, x.mag)))

SFloatAdd(x, y) == SignedSum(x, y, TRUE)       \* the float x + y
SExactAdd(x, y) == SignedSum(x, y, FALSE)      \* the real number x + y
SNegate(x) == SFloat(~x.neg, x.mag)

VecAdd(u, v) == [j \in 1..3 |-> SFloatAdd(u[j], v[j])]
VecZero == [j \in 1..3 |-> SZero]

\* A composition that leaves the last model of the list out.
RECURSIVE SumAccelerations_short(_, _, _)
SumAccelerations_short(ms, i, total) ==
    IF i >= Len(ms) THEN total
    ELSE SumAccelerations_short(ms, i + 1, VecAdd(total, ms[i].acc))

\* total = sum of models[i].acceleration(...), taken in list order from (0, 0, 0).
RECURSIVE SumAccelerations(_, _, _)
SumAccelerations(ms, i, total) ==
    IF i > Len(ms) THEN total
    ELSE SumAccelerations(ms, i + 1, VecAdd(total, ms[i].acc))

compose_forces(ms) ==
    [kind |-> "composition", total_acceleration |-> SumAccelerations(ms, 1, VecZero)]

\* The accelerations of the falsification gate, a zero force, and a large and a
\* small one along x.
ForceVectors ==
    { <<1, 2, -1>>, <<3, -4, 2>>, <<-2, 1, 5>>, <<0, 0, 0>>, <<AccMax, 0, 0>>,
      <<-1, 0, 0>> }
ForceModel(v) == [name |-> v, acc |-> [j \in 1..3 |-> MicroFloat(v[j])]]
ForceLists ==
    UNION {[1..n -> {ForceModel(v) : v \in ForceVectors}] : n \in 0..MaxModels}

CallComposeForces ==
    /\ force_out = None
    /\ force_out' = compose_forces(force_models)
    /\ UNCHANGED force_models

(***************************************************************************)
(* ccsds_contracts.py and json_io.py                                       *)
(*                                                                         *)
(* A Python value is a record with its kind: a string, a number (a whole   *)
(* count of 1e-4), nan, None, a list or a tuple of values.  A dict is a    *)
(* function from its keys.  The text json.dumps writes is represented by   *)
(* the JSON value it denotes, in which a tuple is an array like a list;    *)
(* json.loads returns that value.  sha256 is taken to be collision-free: a *)
(* digest is identified with the text that was hashed.                     *)
(***************************************************************************)
MaxEpochs == 2        \* the longest EPOCHS list
MaxRoundTrips == 3    \* the number of successive round trips followed

PyStr(s) == [kind |-> "str", s |-> s]
PyNum(n) == [kind |-> "num", n |-> n]
PyNan == [kind |-> "nan"]
PyList(xs) == [kind |-> "list", items |-> xs]
PyTuple(xs) == [kind |-> "tuple", items |-> xs]

TypeError == [kind |-> "TypeError"]
CcsdsValidationError(m) == [kind |-> "CcsdsValidationError", msg |-> m]
\* Line 13: CcsdsValidationError is a ValueError.
IsValueError(x) == x.kind \in {"ValueError", "CcsdsValidationError"}

\* Lines 17-43.
REQUIRED_OMM_FIELDS ==
    {"OBJECT_NAME", "OBJECT_ID", "NORAD_CAT_ID", "EPOCH", "MEAN_MOTION", "ECCENTRICITY",
     "INCLINATION", "RA_OF_ASC_NODE", "ARG_OF_PERICENTER", "MEAN_ANOMALY"}
REQUIRED_OEM_FIELDS ==
    {"OBJECT_NAME", "OBJECT_ID", "CENTER_NAME", "REF_FRAME", "TIME_SYSTEM", "EPOCHS",
     "X", "Y", "Z", "X_DOT", "Y_DOT", "Z_DOT"}
StateSeries == <<"X", "Y", "Z", "X_DOT", "Y_DOT", "Z_DOT">>

\* The strings of the model that float() parses, with their values.
NumericStrings == ("15.5" :> 155000) @@ ("0.1" :> 1000) @@ ("-0.1" :> -1000)

\* float(value): a number, or the exception float raises.
float(value) ==
    CASE value.kind \in {"num", "nan"} -> value
      [] value.kind = "str" ->
            IF value.s \in DOMAIN NumericStrings THEN PyNum(NumericStrings[value.s])
            ELSE ValueError
      [] OTHER -> TypeError

\* f <= 0.0 and f < 0.0: both false of nan.
LeqZero(f) == f.kind = "num" /\ f.n <= 0
LessZero(f) == f.kind = "num" /\ f.n < 0

\* json.loads(json.dumps(v)): the value as JSON gives it back.
RECURSIVE JsonValue(_)
JsonValue(v) ==
    IF v.kind \in {"list", "tuple"}
    THEN PyList([i \in 1..Len(v.items) |-> JsonValue(v.items[i])])
    ELSE v
JsonDict(d) == [k \in DOMAIN d |-> JsonValue(d[k])]

\* Lines 57-59: the digest of the canonical text of the payload.
stable_hash(payload) == [kind |-> "sha256", of |-> JsonDict(payload)]

\* Lines 63-68: the exception raised, or None.
require_fields(record, required_fields, message_type) ==
    IF required_fields \ DOMAIN record # {}
    THEN CcsdsValidationError("missing required fields")
    ELSE None

\* Lines 72-79, for a key the record has.
validate_numeric_positive(record, key, message_type) ==
    LET f == float(record[key]) IN
    IF f \in {TypeError, ValueError} THEN CcsdsValidationError("must be numeric")
    ELSE IF LeqZero(f) THEN CcsdsValidationError("must be > 0")
    ELSE None

Valid(payload) == [kind |-> "valid", payload |-> payload]

\* Lines 83-90.  float(record["ECCENTRICITY"]) is outside any try: its exception
\* leaves the function as it is.
validate_omm_record(record) ==
    LET missing == require_fields(record, REQUIRED_OMM_FIELDS, "OMM") IN
    IF missing # None THEN missing
    ELSE LET bad == validate_numeric_positive(record, "MEAN_MOTION", "OMM") IN
         IF bad # None THEN bad
         ELSE LET ecc == float(record["ECCENTRICITY"]) IN
              IF ecc \in {TypeError, ValueError} THEN ecc
              ELSE IF LessZero(ecc) THEN CcsdsValidationError("ECCENTRICITY must be >= 0")
              ELSE Valid(record)

\* Lines 100-105: the first series, in the order of the loop, that is not a list of
\* the length of EPOCHS; 0 if there is none.
RECURSIVE FirstBadSeries(_, _)
FirstBadSeries(record, i) ==
    IF i > Len(StateSeries) THEN 0
    ELSE LET series == record[StateSeries[i]] IN
         IF series.kind # "list" \/ Len(series.items) # Len(record["EPOCHS"].items)
         THEN i
         ELSE FirstBadSeries(record, i + 1)

\* Lines 94-106.
validate_oem_record(record) ==
    LET missing == require_fields(record, REQUIRED_OEM_FIELDS, "OEM") IN
    IF missing # None THEN missing
    ELSE LET epochs == record["EPOCHS"] IN
         IF epochs.kind # "list" \/ epochs.items = <<>>
         THEN CcsdsValidationError("EPOCHS must be a non-empty list")
         ELSE IF FirstBadSeries(record, 1) # 0
         THEN CcsdsValidationError("must be list matching EPOCHS length")
         ELSE Valid(record)

\* The message types tried, and str.upper() on them.
MessageTypes == {"OMM", "omm", "OEM", "Oem", "CDM"}
Upper(t) ==
    CASE t \in {"OMM", "omm"} -> "OMM"
      [] t \in {"OEM", "Oem"} -> "OEM"
      [] OTHER -> t

\* Lines 46-53.
CcsdsEnvelope(mt, payload, ts, hash) ==
    [kind |-> "envelope", message_type |-> mt, payload |-> payload,
     source_timestamp |-> ts, provenance_hash |-> hash]

\* datetime.now(UTC).isoformat()
NowIso == PyStr("now")

\* An envelope that keeps the message type as it was given.
envelope_from_record_raw_type(message_type, record, source_timestamp) ==
    LET normalized_type == Upper(message_type)
        checked == IF normalized_type = "OMM" THEN validate_omm_record(record)
                   ELSE IF normalized_type = "OEM" THEN validate_oem_record(record)
                   ELSE CcsdsValidationError("Unsupported message type")
    IN IF checked.kind # "valid" THEN checked
       ELSE CcsdsEnvelope(message_type, checked.payload,
                          IF source_timestamp \in {None, PyStr("")} THEN NowIso
                          ELSE source_timestamp,
                          stable_hash(checked.payload))

\* Lines 110-126.  "source_timestamp or now": None and "" give the time of the call.
envelope_from_record(message_type, record, source_timestamp) ==
    LET normalized_type == Upper(message_type)
        checked == IF normalized_type = "OMM" THEN validate_omm_record(record)
                   ELSE IF normalized_type = "OEM" THEN validate_oem_record(record)
                   ELSE CcsdsValidationError("Unsupported message type")
    IN IF checked.kind # "valid" THEN checked
       ELSE CcsdsEnvelope(normalized_type, checked.payload,
                          IF source_timestamp \in {None, PyStr("")} THEN NowIso
                          ELSE source_timestamp,
                          stable_hash(checked.payload))

\* A round trip that does not compare the stored hash with the payload's.
roundtrip_envelope_unverified(envelope) ==
    CcsdsEnvelope(envelope.message_type, JsonDict(envelope.payload),
                  JsonValue(envelope.source_timestamp), envelope.provenance_hash)

\* A round trip that stamps the envelope with the time of the round trip.
roundtrip_envelope_restamped(envelope) ==
    LET expected == stable_hash(JsonDict(envelope.payload)) IN
    IF envelope.provenance_hash # expected
    THEN CcsdsValidationError("Envelope provenance hash mismatch after transform")
    ELSE CcsdsEnvelope(envelope.message_type, JsonDict(envelope.payload), NowIso,
                       envelope.provenance_hash)

\* Lines 130-151: raw is what json.loads gives back of the dumped envelope.
roundtrip_envelope(envelope) ==
    LET raw == [message_type |-> envelope.message_type,
                payload |-> JsonDict(envelope.payload),
                source_timestamp |-> JsonValue(envelope.source_timestamp),
                provenance_hash |-> envelope.provenance_hash]
        expected == stable_hash(raw.payload)
    IN IF raw.provenance_hash # expected
       THEN CcsdsValidationError("Envelope provenance hash mismatch after transform")
       ELSE CcsdsEnvelope(raw.message_type, raw.payload, raw.source_timestamp,
                          raw.provenance_hash)

\* json_io.py lines 53-62: the JSON object written to the file.
write_ccsds_envelope(envelope) ==
    [message_type |-> envelope.message_type,
     payload |-> JsonDict(envelope.payload),
     source_timestamp |-> JsonValue(envelope.source_timestamp),
     provenance_hash |-> envelope.provenance_hash]

\* json_io.py lines 32-43, for a file that holds the four keys.
read_ccsds_envelope(raw) ==
    roundtrip_envelope(CcsdsEnvelope(raw.message_type, raw.payload, raw.source_timestamp,
                                     raw.provenance_hash))

\* What a caller, or someone with the file, may do to an envelope: replace the stored
\* digest, change a payload value, remove or add a payload field, or change a value
\* and store the digest of the changed payload.
Tampers == {"hash", "value", "remove", "add", "forge"}
Tamper(e, how) ==
    LET p == e.payload
        changed == [p EXCEPT !["OBJECT_NAME"] = PyStr("OTHER")]
    IN CASE how = "hash" ->
              [e EXCEPT !.provenance_hash = stable_hash("TAMPERED" :> PyStr("0"))]
         [] how = "value" -> [e EXCEPT !.payload = changed]
         [] how = "remove" ->
              [e EXCEPT !.payload = [k \in DOMAIN p \ {"OBJECT_NAME"} |-> p[k]]]
         [] how = "add" -> [e EXCEPT !.payload = p @@ ("COMMENT" :> PyStr("x"))]
         [] how = "forge" ->
              [e EXCEPT !.payload = changed, !.provenance_hash = stable_hash(changed)]

\* The records tried.  A base record with every required field, and the changes made
\* to it: a field given another value, or left out (Absent).
Absent == [kind |-> "absent"]
WithFields(base, over) ==
    LET keys == {k \in DOMAIN base \cup DOMAIN over :
                    IF k \in DOMAIN over THEN over[k] # Absent ELSE TRUE}
    IN [k \in keys |-> IF k \in DOMAIN over THEN over[k] ELSE base[k]]

OmmBase ==
    [k \in REQUIRED_OMM_FIELDS |->
        CASE k = "OBJECT_NAME" -> PyStr("ISS (ZARYA)")
          [] k = "OBJECT_ID" -> PyStr("1998-067A")
          [] k = "EPOCH" -> PyStr("2026-02-16T00:00:00Z")
          [] k = "NORAD_CAT_ID" -> PyNum(255440000)
          [] k = "MEAN_MOTION" -> PyNum(155000)
          [] k = "ECCENTRICITY" -> PyNum(5)
          [] OTHER -> PyNum(100000)]
MeanMotions ==
    {PyNum(155000), PyNum(0), PyNum(-10000), PyStr("15.5"), PyStr("abc"), None, PyNan,
     Absent}
Eccentricities ==
    {PyNum(5), PyNum(0), PyNum(-1), PyStr("0.1"), PyStr("-0.1"), PyStr("abc"), None,
     Absent}
ObjectIds == {PyStr("1998-067A"), PyTuple(<<PyStr("1998"), PyStr("067A")>>), Absent}
OmmRecords ==
    { WithFields(OmmBase, ("MEAN_MOTION" :> mm) @@ ("ECCENTRICITY" :> ecc)
                          @@ ("OBJECT_ID" :> oid) @@ ("EPOCH" :> ep)) :
        mm \in MeanMotions, ecc \in Eccentricities, oid \in ObjectIds,
        ep \in {PyStr("2026-02-16T00:00:00Z"), Absent} }

NumList(n) == PyList([i \in 1..n |-> PyNum(i)])
OemBase(n) ==
    [k \in REQUIRED_OEM_FIELDS |->
        CASE k = "EPOCHS" -> PyList([i \in 1..n |-> PyStr("2026-02-16T00:00:00Z")])
          [] k \in {"X", "Y", "Z", "X_DOT", "Y_DOT", "Z_DOT"} -> NumList(n)
          [] OTHER -> PyStr("EARTH")]
OemRecordsOf(n) ==
    { WithFields(OemBase(n), ("EPOCHS" :> ep) @@ ("X" :> x) @@ ("Z_DOT" :> zd)) :
        ep \in {OemBase(n)["EPOCHS"], PyList(<<>>), PyStr("2026-02-16T00:00:00Z"),
                PyTuple(OemBase(n)["EPOCHS"].items), Absent},
        x \in {NumList(m) : m \in 0..MaxEpochs}
                 \cup {PyTuple(NumList(n).items), PyStr("12"), Absent},
        zd \in {NumList(m) : m \in 0..MaxEpochs} \cup {Absent} }
OemRecords == UNION {OemRecordsOf(n) : n \in 1..MaxEpochs}

SourceTimestamps == {None, PyStr(""), PyStr("2026-02-16T00:00:00Z")}

CallEnvelopeFromRecord ==
    /\ env_out = None
    /\ env_out' = envelope_from_record(ccsds_type, ccsds_record, ccsds_ts)
    /\ rt_env' = IF env_out'.kind = "envelope" THEN env_out' ELSE None
    /\ UNCHANGED <<ccsds_type, ccsds_record, ccsds_ts, env_tamper, rt_arg, rt_out,
                   rt_count, ccsds_file, file_tamper, read_out>>

\* The caller passes the envelope it holds, and holds the returned one from then on.
CallRoundtripEnvelope ==
    /\ rt_env.kind = "envelope"
    /\ rt_count < MaxRoundTrips
    /\ rt_arg' = rt_env
    /\ rt_out' = roundtrip_envelope(rt_env)
    /\ rt_env' = IF rt_out'.kind = "envelope" THEN rt_out' ELSE None
    /\ rt_count' = rt_count + 1
    /\ UNCHANGED <<ccsds_type, ccsds_record, ccsds_ts, env_out, env_tamper,
                   ccsds_file, file_tamper, read_out>>

TamperEnvelope ==
    /\ rt_env.kind = "envelope"
    /\ env_tamper = "none"
    /\ \E how \in Tampers :
          /\ env_tamper' = how
          /\ rt_env' = Tamper(rt_env, how)
    /\ UNCHANGED <<ccsds_type, ccsds_record, ccsds_ts, env_out, rt_arg, rt_out,
                   rt_count, ccsds_file, file_tamper, read_out>>

WriteCcsdsEnvelope ==
    /\ env_out.kind = "envelope"
    /\ ccsds_file = None
    /\ ccsds_file' = write_ccsds_envelope(env_out)
    /\ UNCHANGED <<ccsds_type, ccsds_record, ccsds_ts, env_out, rt_env, env_tamper,
                   rt_arg, rt_out, rt_count, file_tamper, read_out>>

TamperFile ==
    /\ ccsds_file # None
    /\ file_tamper = "none"
    /\ read_out = None
    /\ \E how \in Tampers :
          /\ file_tamper' = how
          /\ ccsds_file' = Tamper(ccsds_file, how)
    /\ UNCHANGED <<ccsds_type, ccsds_record, ccsds_ts, env_out, rt_env, env_tamper,
                   rt_arg, rt_out, rt_count, read_out>>

ReadCcsdsEnvelope ==
    /\ ccsds_file # None
    /\ read_out = None
    /\ read_out' = read_ccsds_envelope(ccsds_file)
    /\ UNCHANGED <<ccsds_type, ccsds_record, ccsds_ts, env_out, rt_env, env_tamper,
                   rt_arg, rt_out, rt_count, ccsds_file, file_tamper>>

(***************************************************************************)
(* replay_bundle.py                                                        *)
(*                                                                         *)
(* A dict is the sequence of its <<key, value>> pairs in insertion order;  *)
(* a key is a string or a whole number.  A JSON text is the sequence of    *)
(* its tokens as a tree: an object is the sequence of its <<name, text>>   *)
(* members in the order they are written.  A digest is identified with the *)
(* text that was hashed.                                                   *)
(***************************************************************************)
PyDict(pairs) == [kind |-> "dict", pairs |-> pairs]
PyDigest(text) == [kind |-> "digest", of |-> text]

KeyError == [kind |-> "KeyError"]

\* The strings of the model in the order Python sorts them (by code point), the ones
\* among them that start with "/" or contain ":\", and str(n) for the whole-number keys.
StringOrder ==
    << "/absolute/path/not_allowed.json", "/opt/gmat", "/var/log/run.log", "10", "2",
       "6fb66bc", "C:\\data\\run.json", "a", "advanced_oumuamua_suncentric", "b",
       "bundle_hash", "config", "constellation_generator", "d9025c0", "extra", "files",
       "gmat", "inputs", "log", "metric", "outputs", "relative/path.json",
       "replay_bundle_v0", "replay_bundle_v1", "runs", "scenario", "schema_version",
       "seed", "software_refs", "z" >>
StrRank(str) == CHOOSE i \in 1..Len(StringOrder) : StringOrder[i] = str
StartsWithSlash == {"/absolute/path/not_allowed.json", "/opt/gmat", "/var/log/run.log"}
ContainsDriveColon == {"C:\\data\\run.json"}
KeyStrings == (2 :> "2") @@ (10 :> "10")

\* Lines 15-16.
is_absolute_path(value) ==
    value.kind = "str" /\ (value.s \in StartsWithSlash \/ value.s \in ContainsDriveColon)

\* k1 < k2 as sorted() compares two keys of one kind.
KeyLess(k1, k2) ==
    IF k1.kind = "num" THEN k1.n < k2.n ELSE StrRank(k1.s) < StrRank(k2.s)
\* The name json.dumps writes for a key.
KeyName(k) == IF k.kind = "num" THEN KeyStrings[k.n] ELSE k.s

\* sorted(pairs): insertion of each pair after the pairs whose keys are not greater.
RECURSIVE InsertPair(_, _)
InsertPair(sorted, pair) ==
    IF sorted = <<>> THEN <<pair>>
    ELSE IF KeyLess(pair[1], Head(sorted)[1]) THEN <<pair>> \o sorted
    ELSE <<Head(sorted)>> \o InsertPair(Tail(sorted), pair)
RECURSIVE SortPairs(_)
SortPairs(pairs) ==
    IF pairs = <<>> THEN <<>>
    ELSE InsertPair(SortPairs(SubSeq(pairs, 1, Len(pairs) - 1)), pairs[Len(pairs)])

\* json.dumps(v, sort_keys=sort_keys): a list and a tuple are written as an array, the
\* members of an object in sorted or in insertion order under the names of their keys.
RECURSIVE Dumps(_, _)
Dumps(v, sort_keys) ==
    CASE v.kind \in {"list", "tuple"} ->
            [kind |-> "array",
             items |-> [i \in 1..Len(v.items) |-> Dumps(v.items[i], sort_keys)]]
      [] v.kind = "dict" ->
            LET pairs == IF sort_keys THEN SortPairs(v.pairs) ELSE v.pairs IN
            [kind |-> "object",
             members |-> [i \in 1..Len(pairs) |->
                             <<KeyName(pairs[i][1]), Dumps(pairs[i][2], sort_keys)>>]]
      [] OTHER -> v

\* json.loads(text): an array is read as a list; an object as a dict with its names
\* as keys, a repeated name keeping its first place and its last value.
RECURSIVE Loads(_)
Loads(text) ==
    CASE text.kind = "array" ->
            PyList([i \in 1..Len(text.items) |-> Loads(text.items[i])])
      [] text.kind = "object" ->
            LET m == text.members
                first == {i \in 1..Len(m) : \A j \in 1..(i - 1) : m[j][1] # m[i][1]}
                last(i) == CHOOSE j \in 1..Len(m) :
                              /\ m[j][1] = m[i][1]
                              /\ \A l \in (j + 1)..Len(m) : m[l][1] # m[i][1]
                kept == SelectSeq([i \in 1..Len(m) |-> i], LAMBDA i : i \in first)
            IN PyDict([n \in 1..Len(kept) |->
                          <<PyStr(m[kept[n]][1]), Loads(m[last(kept[n])][2])>>])
      [] OTHER -> text

\* d[key], key in d, d with key set to value, d without key.
DictHas(d, key) == \E i \in 1..Len(d.pairs) : d.pairs[i][1] = key
DictGet(d, key) == d.pairs[CHOOSE i \in 1..Len(d.pairs) : d.pairs[i][1] = key][2]
DictSet(d, key, value) ==
    IF DictHas(d, key)
    THEN PyDict([i \in 1..Len(d.pairs) |->
                    IF d.pairs[i][1] = key THEN <<key, value>> ELSE d.pairs[i]])
    ELSE PyDict(Append(d.pairs, <<key, value>>))
DictDel(d, key) == PyDict(SelectSeq(d.pairs, LAMBDA pr : pr[1] # key))

ReplayError(m) == [kind |-> "ValueError", msg |-> m]
Str(str) == [kind |-> "str", s |-> str]

\* Lines 20-45: the text written to replay_bundle.json.  The digest is taken of the
\* payload written with sorted keys; the file is written in insertion order.
create_replay_bundle(inputs, outputs, software_refs) ==
    LET payload == PyDict(<< <<Str("schema_version"), Str("replay_bundle_v1")>>,
                             <<Str("inputs"), inputs>>,
                             <<Str("outputs"), outputs>>,
                             <<Str("software_refs"), software_refs>> >>)
        encoded == Dumps(payload, TRUE)
        digest == PyDigest(encoded)
        manifest == DictSet(payload, Str("bundle_hash"), digest)
    IN Dumps(manifest, FALSE)

\* A walk that looks into dicts only.
RECURSIVE walk_dicts_only(_)
walk_dicts_only(obj) ==
    \/ is_absolute_path(obj)
    \/ /\ obj.kind = "dict"
       /\ \E i \in 1..Len(obj.pairs) : walk_dicts_only(obj.pairs[i][2])

\* Lines 59-67: whether walk(obj) raises.
RECURSIVE walk(_)
walk(obj) ==
    \/ is_absolute_path(obj)
    \/ /\ obj.kind = "dict"
       /\ \E i \in 1..Len(obj.pairs) : walk(obj.pairs[i][2])
    \/ /\ obj.kind = "list"
       /\ \E i \in 1..Len(obj.items) : walk(obj.items[i])

\* A replay that does not compare the digests.
replay_bundle_unverified(text) ==
    LET loaded == Loads(text) IN
    IF ~DictHas(loaded, Str("bundle_hash")) THEN KeyError
    ELSE LET manifest == DictDel(loaded, Str("bundle_hash")) IN
         IF walk(manifest)
         THEN ReplayError("Replay bundle contains absolute filesystem path")
         ELSE [kind |-> "manifest", manifest |-> manifest]

\* Lines 49-70.
replay_bundle(text) ==
    LET loaded == Loads(text) IN
    IF ~DictHas(loaded, Str("bundle_hash")) THEN KeyError
    ELSE LET bundle_hash == DictGet(loaded, Str("bundle_hash"))
             manifest == DictDel(loaded, Str("bundle_hash"))
             expected == PyDigest(Dumps(manifest, TRUE))
         IN IF bundle_hash # expected THEN ReplayError("Replay bundle hash mismatch")
            ELSE IF walk(manifest)
            THEN ReplayError("Replay bundle contains absolute filesystem path")
            ELSE [kind |-> "manifest", manifest |-> manifest]

\* What may be done to the file after creation.  The first six break the integrity:
\* the stored hash replaced, inputs replaced, a field added to inputs, software_refs
\* removed, schema_version changed, a field added to the manifest.  The last two
\* replace outputs and store the digest of the changed manifest.
BreakingTampers == {"hash", "changed", "added", "removed", "schema", "top"}
ForgingTampers == {"forge", "forge_abs"}
Rehashed(m) ==
    DictSet(m, Str("bundle_hash"), PyDigest(Dumps(DictDel(m, Str("bundle_hash")), TRUE)))
TamperBundle(text, how) ==
    LET m == Loads(text)
        altered ==
          CASE how = "hash" ->
                  DictSet(m, Str("bundle_hash"), PyDigest(Dumps(PyDict(<<>>), TRUE)))
            [] how = "changed" ->
                  DictSet(m, Str("inputs"), PyDict(<< <<Str("scenario"), Str("b")>> >>))
            [] how = "added" ->
                  DictSet(m, Str("inputs"),
                          DictSet(DictGet(m, Str("inputs")), Str("extra"), Str("a")))
            [] how = "removed" -> DictDel(m, Str("software_refs"))
            [] how = "schema" -> DictSet(m, Str("schema_version"), Str("replay_bundle_v0"))
            [] how = "top" -> DictSet(m, Str("extra"), Str("a"))
            [] how = "forge" ->
                  Rehashed(DictSet(m, Str("outputs"),
                                   PyDict(<< <<Str("log"), Str("relative/path.json")>> >>)))
            [] how = "forge_abs" ->
                  Rehashed(DictSet(m, Str("outputs"),
                                   PyDict(<< <<Str("log"), Str("/var/log/run.log")>> >>)))
    IN Dumps(altered, FALSE)

\* The arguments tried: the ones of the tests, absolute paths at the top and inside a
\* list, a dict and a tuple, a key that looks like an absolute path, a tuple, and
\* dicts keyed by run number.
BundleInputs ==
    { PyDict(<< <<Str("scenario"), Str("advanced_oumuamua_suncentric")>>,
                <<Str("config"), Str("relative/path.json")>> >>),
      PyDict(<< <<Str("config"), Str("/absolute/path/not_allowed.json")>> >>),
      PyDict(<< <<Str("config"), Str("C:\\data\\run.json")>> >>),
      PyDict(<< <<Str("files"),
                  PyList(<<Str("a"), PyDict(<< <<Str("z"), Str("/opt/gmat")>> >>)>>)>> >>),
      PyDict(<< <<Str("files"), PyTuple(<<Str("a"), Str("/opt/gmat")>>)>> >>),
      PyDict(<< <<Str("/opt/gmat"), Str("a")>> >>),
      PyDict(<< <<Str("seed"), PyTuple(<<PyNum(1), PyNum(2)>>)>> >>),
      PyDict(<< <<Str("runs"), PyDict(<< <<PyNum(2), Str("a")>> >>)>> >>),
      PyDict(<< <<Str("runs"),
                  PyDict(<< <<PyNum(2), Str("a")>>, <<PyNum(10), Str("b")>> >>)>> >>),
      PyDict(<<>>) }
BundleOutputs ==
    { PyDict(<< <<Str("metric"), PyNum(1234)>> >>),
      PyDict(<< <<Str("metric"), PyList(<<PyNum(1), PyNum(2)>>)>> >>),
      PyDict(<< <<Str("log"), Str("/var/log/run.log")>> >>) }
BundleSoftwareRefs ==
    { PyDict(<< <<Str("constellation_generator"), Str("6fb66bc")>>,
                <<Str("gmat"), Str("d9025c0")>> >>),
      PyDict(<< <<Str("gmat"), Str("/opt/gmat")>> >>) }

CallCreateReplayBundle ==
    /\ bundle_file = None
    /\ bundle_file' = create_replay_bundle(rb_inputs, rb_outputs, rb_software_refs)
    /\ UNCHANGED <<rb_inputs, rb_outputs, rb_software_refs, bundle_tamper, replay_out>>

TamperBundleFile ==
    /\ bundle_file # None
    /\ bundle_tamper = "none"
    /\ replay_out = None
    /\ \E how \in BreakingTampers \cup ForgingTampers :
          /\ bundle_tamper' = how
          /\ bundle_file' = TamperBundle(bundle_file, how)
    /\ UNCHANGED <<rb_inputs, rb_outputs, rb_software_refs, replay_out>>

CallReplayBundle ==
    /\ bundle_file # None
    /\ replay_out = None
    /\ replay_out' = replay_bundle(bundle_file)
    /\ UNCHANGED <<rb_inputs, rb_outputs, rb_software_refs, bundle_file, bundle_tamper>>

(***************************************************************************)
(* api_contracts.py: the schema compatibility gate.  A str is the sequence  *)
(* of its characters, so that strip() is computed and not assumed.         *)
(***************************************************************************)
MaxNoteLen == 3

\* The characters str.strip() removes that the notes below are built from.
Whitespace == {" ", "\t", "\n"}

RECURSIVE lstrip(_)
lstrip(s) ==
    IF s # <<>> /\ Head(s) \in Whitespace THEN lstrip(Tail(s)) ELSE s

RECURSIVE rstrip(_)
rstrip(s) ==
    IF s # <<>> /\ s[Len(s)] \in Whitespace THEN rstrip(SubSeq(s, 1, Len(s) - 1)) ELSE s

strip(s) == rstrip(lstrip(s))

\* The field names in the order Python's sorted() puts them.
FieldOrder == <<"ecc", "epoch", "id">>

FieldNames == {FieldOrder[i] : i \in 1..Len(FieldOrder)}

\* sorted() of a set of strings, given the strings in ascending order.
RECURSIVE SortedFrom(_, _, _)
SortedFrom(S, order, i) ==
    IF i > Len(order) THEN <<>>
    ELSE (IF order[i] \in S THEN <<order[i]>> ELSE <<>>) \o SortedFrom(S, order, i + 1)

sorted(S) == SortedFrom(S, FieldOrder, 1)

ApiCompatibilityResult(compatible, breaking_changes, requires_version_bump, migration_notes_present) ==
    [kind |-> "ApiCompatibilityResult", compatible |-> compatible,
     breaking_changes |-> breaking_changes,
     requires_version_bump |-> requires_version_bump,
     migration_notes_present |-> migration_notes_present]

evaluate_schema_compatibility_unstripped(previous, current, notes, bumped) ==
    LET removed == sorted(previous \ current)
        breaking == [i \in 1..Len(removed) |-> "removed:" \o removed[i]]
        has_break == Len(breaking) > 0
        notes_present == notes # <<>>
        compatible == ~(has_break /\ (~bumped \/ ~notes_present))
    IN  ApiCompatibilityResult(compatible, breaking, has_break, notes_present)

evaluate_schema_compatibility(previous, current, notes, bumped) ==
    LET removed == sorted(previous \ current)
        breaking == [i \in 1..Len(removed) |-> "removed:" \o removed[i]]
        has_break == Len(breaking) > 0
        notes_present == strip(notes) # <<>>
        compatible == ~(has_break /\ (~bumped \/ ~notes_present))
    IN  ApiCompatibilityResult(compatible, breaking, has_break, notes_present)

NoteChars == {" ", "\t", "x"}

NotesOf(n) == [1..n -> NoteChars]

MigrationNotes == UNION {NotesOf(n) : n \in 0..MaxNoteLen}

CallEvaluateSchemaCompatibility ==
    /\ compat_out = None
    /\ compat_out' = evaluate_schema_compatibility(previous_fields, current_fields,
                                                   migration_notes, version_bumped)
    /\ UNCHANGED <<previous_fields, current_fields, migration_notes, version_bumped>>

(***************************************************************************)
(* mission_digital_twin.py: continuity of the twin's states across the      *)
(* mission phases.                                                         *)
(***************************************************************************)
MaxStates == 3

TwinState(phase, state_id, parent_state_id) ==
    [phase |-> phase, state_id |-> state_id, parent_state_id |-> parent_state_id]

PHASE_ORDER == <<"design", "operations", "end_of_life">>

PhaseIndex(phase) == CHOOSE i \in 1..Len(PHASE_ORDER) : PHASE_ORDER[i] = phase

InPhaseOrder(phase) == \E i \in 1..Len(PHASE_ORDER) : PHASE_ORDER[i] = phase

\* The key of line 36: the position in PHASE_ORDER (from 0), and 99 otherwise.
PhaseKey(s) == IF InPhaseOrder(s.phase) THEN PhaseIndex(s.phase) - 1 ELSE 99

WithKey(sts, k) == SelectSeq(sts, LAMBDA s : PhaseKey(s) = k)

\* sorted(states, key=...): stable, so states of one key keep their order.
SortedByPhase(sts) ==
    WithKey(sts, 0) \o WithKey(sts, 1) \o WithKey(sts, 2) \o WithKey(sts, 99)

NonMonotonic(ordered) ==
    \E idx \in 2..Len(ordered) :
        /\ InPhaseOrder(ordered[idx].phase) /\ InPhaseOrder(ordered[idx - 1].phase)
        /\ PhaseIndex(ordered[idx].phase) < PhaseIndex(ordered[idx - 1].phase)

\* The phase names in the order Python's sorted() puts them.
PhaseNameOrder == <<"design", "end_of_life", "operations", "retired">>

Orphan(sts, s) ==
    /\ s.parent_state_id # None
    /\ s.parent_state_id.s \notin {sts[j].state_id : j \in 1..Len(sts)}

Orphans(sts) == {i \in 1..Len(sts) : Orphan(sts, sts[i])}

FirstOrphan(sts) == CHOOSE i \in Orphans(sts) : \A j \in Orphans(sts) : i <= j

TwinFailure(reason) == [kind |-> "dict", ok |-> FALSE, reason |-> reason]

TwinSuccess(phases) == [kind |-> "dict", ok |-> TRUE, phases |-> phases]

validate_twin_continuity_parents_unchecked(sts) ==
    LET seen_phases == {sts[i].phase : i \in 1..Len(sts)}
        required == {PHASE_ORDER[i] : i \in 1..Len(PHASE_ORDER)}
    IN  IF Len(sts) < 3 THEN TwinFailure("at least 3 states required")
        ELSE IF ~(required \subseteq seen_phases)
        THEN TwinFailure("missing required lifecycle phases")
        ELSE IF NonMonotonic(SortedByPhase(sts))
        THEN TwinFailure("non-monotonic phase transition")
        ELSE TwinSuccess(SortedFrom(seen_phases, PhaseNameOrder, 1))

validate_twin_continuity(sts) ==
    LET seen_phases == {sts[i].phase : i \in 1..Len(sts)}
        required == {PHASE_ORDER[i] : i \in 1..Len(PHASE_ORDER)}
    IN  IF Len(sts) < 3 THEN TwinFailure("at least 3 states required")
        ELSE IF ~(required \subseteq seen_phases)
        THEN TwinFailure("missing required lifecycle phases")
        ELSE IF Orphans(sts) # {}
        THEN TwinFailure("orphan state: " \o sts[FirstOrphan(sts)].state_id)
        ELSE IF NonMonotonic(SortedByPhase(sts))
        THEN TwinFailure("non-monotonic phase transition")
        ELSE TwinSuccess(SortedFrom(seen_phases, PhaseNameOrder, 1))

Phases == {PhaseNameOrder[i] : i \in 1..Len(PhaseNameOrder)}

StateIds == {"s0", "s1"}

ParentIds == {None, PyStr("s0"), PyStr("missing")}

TwinStates ==
    {TwinState(p, i, q) : p \in Phases, i \in StateIds, q \in ParentIds}

StateListsOf(n) == [1..n -> TwinStates]

StateLists == UNION {StateListsOf(n) : n \in 0..MaxStates}

CallValidateTwinContinuity ==
    /\ twin_out = None
    /\ twin_out' = validate_twin_continuity(states)
    /\ UNCHANGED states

(***************************************************************************)
(* trade_cost_energy.py: the Pareto front over performance, cost, energy    *)
(* and runtime.  A float is PyNum(n) or PyNan; every comparison with a NaN  *)
(* is false, as in Python.                                                 *)
(***************************************************************************)
MaxPoints == 3

CostEnergyPoint(mission_performance, compute_cost_usd, energy_kwh, runtime_s) ==
    [mission_performance |-> mission_performance, compute_cost_usd |-> compute_cost_usd,
     energy_kwh |-> energy_kwh, runtime_s |-> runtime_s]

FloatLeq(x, y) == x # PyNan /\ y # PyNan /\ x.n <= y.n

FloatLess(x, y) == x # PyNan /\ y # PyNan /\ x.n < y.n

\* Lines 27-37 without the strictness test of lines 31-36.
Dominates_not_strict(b, a) ==
    /\ FloatLeq(a.mission_performance, b.mission_performance)
    /\ FloatLeq(b.compute_cost_usd, a.compute_cost_usd)
    /\ FloatLeq(b.energy_kwh, a.energy_kwh)
    /\ FloatLeq(b.runtime_s, a.runtime_s)

\* The condition of line 37: b is at least as good as a everywhere and strictly
\* better somewhere.
Dominates(b, a) ==
    /\ FloatLeq(a.mission_performance, b.mission_performance)
    /\ FloatLeq(b.compute_cost_usd, a.compute_cost_usd)
    /\ FloatLeq(b.energy_kwh, a.energy_kwh)
    /\ FloatLeq(b.runtime_s, a.runtime_s)
    /\ \/ FloatLess(a.mission_performance, b.mission_performance)
       \/ FloatLess(b.compute_cost_usd, a.compute_cost_usd)
       \/ FloatLess(b.energy_kwh, a.energy_kwh)
       \/ FloatLess(b.runtime_s, a.runtime_s)

\* The inner loop of lines 24-39 from index j on (indices count from 0): skips j = i,
\* stops at the first point that dominates point i.
RECURSIVE DominatedFrom(_, _, _)
DominatedFrom(pts, i, j) ==
    IF j >= Len(pts) THEN FALSE
    ELSE IF i = j THEN DominatedFrom(pts, i, j + 1)
    ELSE IF Dominates(pts[j + 1], pts[i + 1]) THEN TRUE
    ELSE DominatedFrom(pts, i, j + 1)

ParetoEntry ==
    /\ pf_pc = "entry"
    /\ front' = <<>>
    /\ pf_i' = 0
    /\ pf_pc' = "loop"
    /\ UNCHANGED <<cost_points, pf_out>>

\* One pass of the outer loop, lines 22-41.
ParetoLoopStep ==
    /\ pf_pc = "loop"
    /\ pf_i < Len(cost_points)
    /\ front' = IF DominatedFrom(cost_points, pf_i, 0) THEN front ELSE Append(front, pf_i)
    /\ pf_i' = pf_i + 1
    /\ UNCHANGED <<cost_points, pf_pc, pf_out>>

ParetoReturn ==
    /\ pf_pc = "loop"
    /\ pf_i >= Len(cost_points)
    /\ pf_out' = PyList(front)
    /\ pf_pc' = "done"
    /\ UNCHANGED <<cost_points, pf_i, front>>

PointValues == {PyNum(0), PyNum(1)}

CostPoints ==
    {CostEnergyPoint(p, c, e, r) :
        p \in PointValues, c \in PointValues, e \in PointValues, r \in PointValues}
    \cup {CostEnergyPoint(PyNan, PyNum(0), PyNum(0), PyNum(0)),
          CostEnergyPoint(PyNum(1), PyNum(0), PyNan, PyNum(0))}

PointListsOf(n) == [1..n -> CostPoints]

PointLists == UNION {PointListsOf(n) : n \in 0..MaxPoints}

(***************************************************************************)
(* cli.py: rewriting of the deprecated flags into subcommands.  A list      *)
(* object is its items together with whether it is the caller's own list,  *)
(* so that an in-place insert on the caller's list would show.             *)
(***************************************************************************)
MaxArgs == 4

Subcommands == {"serve", "generate", "import", "sweep"}

ListObject(items, is_callers) == [items |-> items, is_callers |-> is_callers]

\* list(argv): a new list with the same items.
list_copy(xs) == ListObject(xs, FALSE)

Contains(xs, x) == \E k \in 1..Len(xs) : xs[k] = x

\* xs.index(x), counted from 0, for an x that occurs.
IndexOf(xs, x) == (CHOOSE k \in 1..Len(xs) : xs[k] = x /\ \A m \in 1..(k - 1) : xs[m] # x) - 1

\* xs[:i] + xs[i + n:], a new list.
WithoutAt(xs, i, n) == SubSeq(xs, 1, i) \o SubSeq(xs, i + n + 1, Len(xs))

\* xs.insert(i, x): before index i, or at the end of a shorter list.
Inserted(xs, i, x) ==
    LET k == Min(i, Len(xs))
    IN  SubSeq(xs, 1, k) \o <<x>> \o SubSeq(xs, k + 1, Len(xs))

ServeWarning == "DeprecationWarning: '--serve' is deprecated. Use: humeris serve"

ImportWarning(flag, kind) ==
    "DeprecationWarning: '" \o flag \o "' is deprecated. Use: humeris import " \o kind \o " FILE"

BareWarning == "DeprecationWarning: Bare mode is deprecated. Use: humeris generate -i FILE -o FILE"

\* What a call leaves behind: the caller's list, the returned list, whether the
\* returned list is the caller's own object, and the warnings.
Rewritten(callers, new_argv, same_object, warnings) ==
    [kind |-> "tuple", callers |-> callers, new_argv |-> new_argv,
     same_object |-> same_object, warnings |-> warnings]

\* Lines 613-625 and 628-640: the flag is followed by an element.
HasImport(xs, flag) == Contains(xs, flag) /\ IndexOf(xs, flag) + 1 < Len(xs)

RewriteImport_file_in_place(xs, flag, kind) ==
    LET i == IndexOf(xs, flag)
        file_path == xs[i + 2]
        cut == WithoutAt(xs, i, 2)
    IN  Inserted(Inserted(Inserted(cut, 1, "import"), 2, kind), 3, file_path)

RewriteImport(xs, flag, kind) ==
    LET i == IndexOf(xs, flag)
        file_path == xs[i + 2]
        cut == WithoutAt(xs, i, 2)
    IN  Append(Inserted(Inserted(cut, 1, "import"), 2, kind), file_path)

\* _rewrite_legacy_argv, lines 585-651.  argv[1] of the code is argv_in[2] here.
rewrite_legacy_argv(argv_in) ==
    IF Len(argv_in) < 2 THEN Rewritten(argv_in, argv_in, TRUE, <<>>)
    ELSE IF argv_in[2] \in Subcommands THEN Rewritten(argv_in, argv_in, TRUE, <<>>)
    ELSE
        LET args == list_copy(argv_in)
        IN  IF Contains(args.items, "--serve")
            THEN Rewritten(argv_in,
                           Inserted(WithoutAt(args.items, IndexOf(args.items, "--serve"), 1),
                                    1, "serve"),
                           FALSE, <<ServeWarning>>)
            ELSE IF HasImport(args.items, "--import-opm")
            THEN Rewritten(argv_in, RewriteImport(args.items, "--import-opm", "opm"), FALSE,
                           <<ImportWarning("--import-opm", "opm")>>)
            ELSE IF HasImport(args.items, "--import-oem")
            THEN Rewritten(argv_in, RewriteImport(args.items, "--import-oem", "oem"), FALSE,
                           <<ImportWarning("--import-oem", "oem")>>)
            ELSE IF Contains(args.items, "-i") \/ Contains(args.items, "--input")
            THEN LET inserted == Inserted(args.items, 1, "generate")
                 IN  Rewritten(IF args.is_callers THEN inserted ELSE argv_in,
                               inserted, args.is_callers, <<BareWarning>>)
            ELSE Rewritten(argv_in, args.items, args.is_callers, <<>>)

ArgWords ==
    {"humeris", "serve", "import", "--serve", "--import-opm", "--import-oem", "-i",
     "--input", "f"}

ArgvsOf(n) == [1..n -> ArgWords]

Argvs == UNION {ArgvsOf(n) : n \in 0..MaxArgs}

CallRewriteLegacyArgv ==
    /\ rw_out = None
    /\ rw_out' = rewrite_legacy_argv(argv)
    /\ argv' = rw_out'.callers
    /\ UNCHANGED <<argv_given, rw_again>>

\* The caller rewrites the argv it got back.
CallRewriteAgain ==
    /\ rw_out # None /\ rw_again = None
    /\ rw_again' = rewrite_legacy_argv(rw_out.new_argv)
    /\ argv' = IF rw_out.same_object THEN rw_again'.callers ELSE argv
    /\ UNCHANGED <<argv_given, rw_out>>

\* The caller evaluates the event it holds under one more of the three packs.
CallUnderPack ==
    \E name \in KnownProfiles :
        /\ pack_out[name] = None
        /\ pack_out' = [pack_out EXCEPT ![name] =
                            evaluate_profiled_screening(miss_distance_m,
                                                        base_collision_probability, name)]

(***************************************************************************)
(* run_gmat_mirror_compare.py: the history of profile behaviour across      *)
(* runs.  A file is Absent or the JSON text written to it; indentation and *)
(* the final newline do not change what json.loads reads and are left out. *)
(***************************************************************************)
MaxHistoryCalls == 3

PathJoin(root, name) == [kind |-> "path", root |-> root, name |-> name]

\* d.get(key, default)
DictGetOr(d, key, default) == IF DictHas(d, key) THEN DictGet(d, key) ELSE default

\* Lines 57-63: the entry appended for a run.
HistoryEntry(run_id, profile_behavior_annex) ==
    PyDict(<< <<Str("run_id"), Str(run_id)>>,
              <<Str("scenario_input"),
                DictGetOr(profile_behavior_annex, Str("scenario_input"), PyDict(<<>>))>>,
              <<Str("profiles"),
                DictGetOr(profile_behavior_annex, Str("profiles"), PyList(<<>>))>> >>)

\* Lines 53-56 with the else branch taken always: the history starts empty.
LoadHistory_always_empty(file) ==
    PyDict(<< <<Str("runs"), PyList(<<>>)>> >>)

\* Lines 53-56: the history read from the file, or an empty one.
LoadHistory(file) ==
    IF file # Absent THEN Loads(file) ELSE PyDict(<< <<Str("runs"), PyList(<<>>)>> >>)

HistoryRunIds == {"run-0001-test", "run-0002-test"}

\* Annexes: the one the script builds (cut down to one profile), an empty one, and one
\* whose values JSON does not give back as they are (a tuple, a whole-number key next
\* to the string it is written as).
ProfileBehaviorAnnexes ==
    { PyDict(<< <<Str("scenario_input"),
                  PyDict(<< <<Str("miss_distance_m"), PyNum(12000)>>,
                            <<Str("base_collision_probability"), PyNum(20)>> >>)>>,
                <<Str("profiles"),
                  PyList(<< PyDict(<< <<Str("id"), Str("nominal")>>,
                                      <<Str("version"), Str("v1")>> >>) >>)>> >>),
      PyDict(<<>>),
      PyDict(<< <<Str("scenario_input"),
                  PyDict(<< <<PyNum(2), Str("a")>>, <<Str("2"), Str("b")>> >>)>>,
                <<Str("profiles"), PyTuple(<<Str("a")>>)>> >>) }

\* Lines 52-56: the call starts and reads the file.
HistoryRead ==
    /\ hist_args = None
    /\ Len(hist_calls) < MaxHistoryCalls
    /\ \E run_id \in HistoryRunIds : \E annex \in ProfileBehaviorAnnexes :
           hist_args' = [run_id |-> run_id, profile_behavior_annex |-> annex]
    /\ history' = LoadHistory(history_file)
    /\ UNCHANGED <<out_root, history_file, hist_calls, hist_paths>>

\* Lines 57-65: the entry is appended, the file is written, the path is returned.
HistoryWrite ==
    /\ hist_args # None
    /\ LET runs == DictGet(history, Str("runs"))
           entry == HistoryEntry(hist_args.run_id, hist_args.profile_behavior_annex)
           appended == DictSet(history, Str("runs"), PyList(Append(runs.items, entry)))
       IN  history_file' = Dumps(appended, FALSE)
    /\ hist_paths' = Append(hist_paths, PathJoin(out_root, "profile_behavior_history.json"))
    /\ hist_calls' = Append(hist_calls, hist_args)
    /\ hist_args' = None
    /\ history' = None
    /\ UNCHANGED out_root

(***************************************************************************)
(* run_gmat_mirror_compare.py: the numbering of the runs.  Each invocation  *)
(* of the script calls _next_run_dir once, and invocations of the script   *)
(* are separate processes whose file operations interleave.  write_text    *)
(* opens the file for writing, which empties it, and then writes the text. *)
(***************************************************************************)
NumInvocations == 3

Invocations == 1..NumInvocations

JSONDecodeError == [kind |-> "JSONDecodeError"]

EmptyText == [kind |-> "empty"]

\* f"{run_number:04d}" for the run numbers that can occur.
RunNumberText == <<"0001", "0002", "0003", "0004", "0005">>

\* Line 36.
RunId(number, cg_label, gmat_label) ==
    "run-" \o RunNumberText[number] \o "-" \o cg_label \o "-vs-" \o gmat_label

CgLabel == "6fb66bc"

GmatLabel == "d9025c0"

\* Lines 31-34: the index read from the file, or the default one.
LoadIndex(file) ==
    IF file = Absent
    THEN PyDict(<< <<Str("next_run"), PyNum(1)>>, <<Str("runs"), PyList(<<>>)>> >>)
    ELSE IF file = EmptyText THEN JSONDecodeError
    ELSE Loads(file)

\* Lines 30-35: the invocation reads index.json and takes its run number; a file that
\* another invocation has emptied and not yet written cannot be parsed.
NextRunDirRead(p) ==
    /\ nrd_pc[p] = "start"
    /\ LET index == LoadIndex(index_file) IN
       IF index = JSONDecodeError
       THEN /\ nrd_pc' = [nrd_pc EXCEPT ![p] = "raised"]
            /\ nrd_out' = [nrd_out EXCEPT ![p] = JSONDecodeError]
            /\ UNCHANGED <<nrd_index, run_number>>
       ELSE /\ nrd_index' = [nrd_index EXCEPT ![p] = index]
            /\ run_number' = [run_number EXCEPT ![p] = DictGetOr(index, Str("next_run"), PyNum(1)).n]
            /\ nrd_pc' = [nrd_pc EXCEPT ![p] = "read"]
            /\ UNCHANGED nrd_out
    /\ UNCHANGED <<index_file, latest_file, run_dirs>>

\* Lines 36-38: the run directory is made; one that exists already is accepted.
NextRunDirMkdir(p) ==
    /\ nrd_pc[p] = "read"
    /\ run_dirs' = run_dirs \cup {RunId(run_number[p], CgLabel, GmatLabel)}
    /\ nrd_pc' = [nrd_pc EXCEPT ![p] = "made"]
    /\ UNCHANGED <<index_file, latest_file, nrd_index, run_number, nrd_out>>

\* Lines 40-42, first half: the index is updated and index.json is opened for writing.
NextRunDirOpenIndex(p) ==
    /\ nrd_pc[p] = "made"
    /\ LET run_id == RunId(run_number[p], CgLabel, GmatLabel)
           runs == DictGet(nrd_index[p], Str("runs"))
           entry == PyDict(<< <<Str("run_id"), Str(run_id)>>,
                              <<Str("run_number"), PyNum(run_number[p])>> >>)
           bumped == DictSet(nrd_index[p], Str("next_run"), PyNum(run_number[p] + 1))
       IN  nrd_index' = [nrd_index EXCEPT ![p] =
                             DictSet(bumped, Str("runs"), PyList(Append(runs.items, entry)))]
    /\ index_file' = EmptyText
    /\ nrd_pc' = [nrd_pc EXCEPT ![p] = "opened"]
    /\ UNCHANGED <<latest_file, run_dirs, run_number, nrd_out>>

\* Line 42, second half: the text is written to index.json.
NextRunDirWriteIndex(p) ==
    /\ nrd_pc[p] = "opened"
    /\ index_file' = Dumps(nrd_index[p], FALSE)
    /\ nrd_pc' = [nrd_pc EXCEPT ![p] = "written"]
    /\ UNCHANGED <<latest_file, run_dirs, nrd_index, run_number, nrd_out>>

\* Lines 43-44: LATEST is written and the directory and the number are returned.
NextRunDirReturn(p) ==
    /\ nrd_pc[p] = "written"
    /\ latest_file' = RunId(run_number[p], CgLabel, GmatLabel)
    /\ nrd_out' = [nrd_out EXCEPT ![p] =
                       [kind |-> "tuple",
                        run_dir |-> RunId(run_number[p], CgLabel, GmatLabel),
                        run_number |-> run_number[p]]]
    /\ nrd_pc' = [nrd_pc EXCEPT ![p] = "done"]
    /\ UNCHANGED <<index_file, run_dirs, nrd_index, run_number>>

(***************************************************************************)
(* atmosphere.py: atmospheric_density at two altitudes                     *)
(*                                                                         *)
(* Two calls of atmospheric_density, at h1 and at h2 with h1 <= h2 and h2  *)
(* at most MaxGap grid steps above h1.                                     *)
(***************************************************************************)
MaxGap == 2          \* how many grid steps h2 lies above h1 at most

\* atmospheric_density(h1)
CallDensityAtH1 ==
    /\ density_h1 = Idle
    /\ density_h1' = atmospheric_density(h1)
    /\ UNCHANGED <<h1, h2, density_h2>>

\* atmospheric_density(h2)
CallDensityAtH2 ==
    /\ density_h2 = Idle
    /\ density_h2' = atmospheric_density(h2)
    /\ UNCHANGED <<h1, h2, density_h1>>

(***************************************************************************)
(* Specifications: the routine under study is called on arguments drawn    *)
(* from its bounded sets; the other routines' variables are parked.        *)
(***************************************************************************)
RestartIdle ==
    /\ gt_first = Idle /\ gt_given = Idle

CcsdsIdle ==
    /\ ccsds_type = "" /\ ccsds_record = Idle /\ ccsds_ts = Idle /\ env_out = Idle /\ rt_env = Idle
    /\ env_tamper = "" /\ rt_arg = Idle /\ rt_out = Idle /\ rt_count = 0 /\ ccsds_file = Idle
    /\ file_tamper = "" /\ read_out = Idle

BundleIdle ==
    /\ rb_inputs = Idle /\ rb_outputs = Idle /\ rb_software_refs = Idle
    /\ bundle_file = Idle /\ bundle_tamper = "" /\ replay_out = Idle

SchemaIdle ==
    /\ previous_fields = {} /\ current_fields = {} /\ migration_notes = <<>>
    /\ version_bumped = FALSE /\ compat_out = Idle

TwinIdle ==
    /\ states = <<>> /\ twin_out = Idle

ParetoIdle ==
    /\ cost_points = <<>> /\ pf_i = 0 /\ front = <<>> /\ pf_pc = "idle" /\ pf_out = Idle

ArgvIdle ==
    /\ argv = <<>> /\ argv_given = <<>> /\ rw_out = Idle /\ rw_again = Idle

PackIdle ==
    pack_out = Idle

HistIdle ==
    /\ out_root = "" /\ history_file = Idle /\ hist_args = Idle /\ history = Idle
    /\ hist_calls = <<>> /\ hist_paths = <<>>

RunDirIdle ==
    /\ index_file = Idle /\ latest_file = "" /\ run_dirs = {}
    /\ nrd_pc = <<>> /\ nrd_index = <<>> /\ run_number = <<>> /\ nrd_out = <<>>

MonoIdle ==
    h1 = 0 /\ h2 = 0 /\ density_h1 = Idle /\ density_h2 = Idle

ScrIdle ==
    /\ miss_distance_m = 0 /\ base_collision_probability = 0
    /\ profile_name = "" /\ prof_out = Idle /\ scr_out = Idle

AtmIdle ==
    /\ altitude_km = 0 /\ lo = 0 /\ hi = 0 /\ atm_pc = "idle" /\ atm_out = Idle

DragIdle ==
    /\ drag_config = Idle /\ density = 0 /\ velocity = 0 /\ sma_km = 0
    /\ bc_out = Idle /\ acc_out = Idle /\ decay_out = Idle

KepIdle ==
    /\ kep_in = Idle /\ kep_out = Idle

ForceIdle ==
    /\ force_models = <<>> /\ force_out = Idle

GtIdle ==
    /\ satellite = Idle /\ gt_step = Idle /\ gt_duration = Idle
    /\ step_seconds = Idle /\ duration_seconds = Idle /\ orbit = Idle
    /\ elapsed = <<>> /\ points = <<>> /\ gt_pc = "idle" /\ gt_out = Idle

CallGetScreeningProfile ==
    /\ prof_out = None
    /\ prof_out' = get_screening_profile(profile_name)
    /\ UNCHANGED <<miss_distance_m, base_collision_probability, profile_name, scr_out>>

CallEvaluateProfiledScreening ==
    /\ scr_out = None
    /\ scr_out' = evaluate_profiled_screening(miss_distance_m, base_collision_probability,
                                              profile_name)
    /\ UNCHANGED <<miss_distance_m, base_collision_probability, profile_name, prof_out>>

InitScreening ==
    /\ miss_distance_m \in MissDistances
    /\ base_collision_probability \in BasePcs
    /\ profile_name \in ProfileNames
    /\ prof_out = None
    /\ scr_out = None
    /\ AtmIdle /\ DragIdle /\ KepIdle /\ GtIdle /\ ForceIdle /\ RestartIdle /\ CcsdsIdle /\ BundleIdle /\ SchemaIdle /\ TwinIdle /\ ParetoIdle /\ ArgvIdle /\ PackIdle /\ HistIdle /\ RunDirIdle /\ MonoIdle

NextScreening ==
    \/ CallGetScreeningProfile /\ UNCHANGED <<atmVars, dragVars, kepVars, gtVars, forceVars, restartVars, ccsdsVars, bundleVars, schemaVars, twinVars, paretoVars, argvVars, packVars, histVars, runDirVars, monoVars>>
    \/ CallEvaluateProfiledScreening /\ UNCHANGED <<atmVars, dragVars, kepVars, gtVars, forceVars, restartVars, ccsdsVars, bundleVars, schemaVars, twinVars, paretoVars, argvVars, packVars, histVars, runDirVars, monoVars>>

SpecScreening == InitScreening /\ [][NextScreening]_vars

InitAtmosphere ==
    /\ altitude_km \in Altitudes
    /\ lo = 0 /\ hi = 0
    /\ atm_pc = "entry"
    /\ atm_out = None
    /\ ScrIdle /\ DragIdle /\ KepIdle /\ GtIdle /\ ForceIdle /\ RestartIdle /\ CcsdsIdle /\ BundleIdle /\ SchemaIdle /\ TwinIdle /\ ParetoIdle /\ ArgvIdle /\ PackIdle /\ HistIdle /\ RunDirIdle /\ MonoIdle

NextAtmosphere ==
    \/ AtmCheckRange /\ UNCHANGED <<scrVars, dragVars, kepVars, gtVars, forceVars, restartVars, ccsdsVars, bundleVars, schemaVars, twinVars, paretoVars, argvVars, packVars, histVars, runDirVars, monoVars>>
    \/ AtmSearchStep /\ UNCHANGED <<scrVars, dragVars, kepVars, gtVars, forceVars, restartVars, ccsdsVars, bundleVars, schemaVars, twinVars, paretoVars, argvVars, packVars, histVars, runDirVars, monoVars>>
    \/ AtmReturn /\ UNCHANGED <<scrVars, dragVars, kepVars, gtVars, forceVars, restartVars, ccsdsVars, bundleVars, schemaVars, twinVars, paretoVars, argvVars, packVars, histVars, runDirVars, monoVars>>

SpecAtmosphere == InitAtmosphere /\ [][NextAtmosphere]_vars

\* A call that has started keeps running: the function is sequential code with no
\* wait in it, so a step that can be taken is taken.
SpecAtmosphereFair == SpecAtmosphere /\ WF_vars(NextAtmosphere)

InitDrag ==
    /\ drag_config \in DragConfigs
    /\ density \in DragDensities
    /\ velocity \in DragVelocities
    /\ sma_km \in DragSmaKm
    /\ bc_out = None /\ acc_out = None /\ decay_out = None
    /\ ScrIdle /\ AtmIdle /\ KepIdle /\ GtIdle /\ ForceIdle /\ RestartIdle /\ CcsdsIdle /\ BundleIdle /\ SchemaIdle /\ TwinIdle /\ ParetoIdle /\ ArgvIdle /\ PackIdle /\ HistIdle /\ RunDirIdle /\ MonoIdle

NextDrag ==
    \/ CallBallisticCoefficient /\ UNCHANGED <<scrVars, atmVars, kepVars, gtVars, forceVars, restartVars, ccsdsVars, bundleVars, schemaVars, twinVars, paretoVars, argvVars, packVars, histVars, runDirVars, monoVars>>
    \/ CallDragAcceleration /\ UNCHANGED <<scrVars, atmVars, kepVars, gtVars, forceVars, restartVars, ccsdsVars, bundleVars, schemaVars, twinVars, paretoVars, argvVars, packVars, histVars, runDirVars, monoVars>>
    \/ CallDecayRate /\ UNCHANGED <<scrVars, atmVars, kepVars, gtVars, forceVars, restartVars, ccsdsVars, bundleVars, schemaVars, twinVars, paretoVars, argvVars, packVars, histVars, runDirVars, monoVars>>

SpecDrag == InitDrag /\ [][NextDrag]_vars

InitKepler ==
    /\ kep_in \in KeplerInputs
    /\ kep_out = None
    /\ ScrIdle /\ AtmIdle /\ DragIdle /\ GtIdle /\ ForceIdle /\ RestartIdle /\ CcsdsIdle /\ BundleIdle /\ SchemaIdle /\ TwinIdle /\ ParetoIdle /\ ArgvIdle /\ PackIdle /\ HistIdle /\ RunDirIdle /\ MonoIdle

NextKepler ==
    \/ CallKeplerToCartesian /\ UNCHANGED <<scrVars, atmVars, dragVars, gtVars, forceVars, restartVars, ccsdsVars, bundleVars, schemaVars, twinVars, paretoVars, argvVars, packVars, histVars, runDirVars, monoVars>>

SpecKepler == InitKepler /\ [][NextKepler]_vars

InitGroundTrack ==
    /\ satellite \in Satellites
    /\ gt_step \in GtSteps
    /\ gt_duration \in GtDurations(gt_step)
    /\ step_seconds = None /\ duration_seconds = None /\ orbit = None
    /\ elapsed = <<>> /\ points = <<>>
    /\ gt_pc = "entry"
    /\ gt_out = None
    /\ ScrIdle /\ AtmIdle /\ DragIdle /\ KepIdle /\ ForceIdle /\ RestartIdle /\ CcsdsIdle /\ BundleIdle /\ SchemaIdle /\ TwinIdle /\ ParetoIdle /\ ArgvIdle /\ PackIdle /\ HistIdle /\ RunDirIdle /\ MonoIdle

NextGroundTrack ==
    \/ GtEntry /\ UNCHANGED <<scrVars, atmVars, dragVars, kepVars, forceVars, restartVars, ccsdsVars, bundleVars, schemaVars, twinVars, paretoVars, argvVars, packVars, histVars, runDirVars, monoVars>>
    \/ GtLoopStep /\ UNCHANGED <<scrVars, atmVars, dragVars, kepVars, forceVars, restartVars, ccsdsVars, bundleVars, schemaVars, twinVars, paretoVars, argvVars, packVars, histVars, runDirVars, monoVars>>
    \/ GtReturn /\ UNCHANGED <<scrVars, atmVars, dragVars, kepVars, forceVars, restartVars, ccsdsVars, bundleVars, schemaVars, twinVars, paretoVars, argvVars, packVars, histVars, runDirVars, monoVars>>

SpecGroundTrack == InitGroundTrack /\ [][NextGroundTrack]_vars

InitRestart ==
    /\ satellite \in Satellites
    /\ gt_step \in GtSteps
    /\ gt_duration \in GtDurations(gt_step)
    /\ step_seconds = None /\ duration_seconds = None /\ orbit = None
    /\ elapsed = <<>> /\ points = <<>>
    /\ gt_pc = "entry"
    /\ gt_out = None
    /\ gt_first = None /\ gt_given = satellite
    /\ ScrIdle /\ AtmIdle /\ DragIdle /\ KepIdle /\ ForceIdle /\ CcsdsIdle /\ BundleIdle /\ SchemaIdle /\ TwinIdle /\ ParetoIdle /\ ArgvIdle /\ PackIdle /\ HistIdle /\ RunDirIdle /\ MonoIdle

NextRestart ==
    \/ GtEntry /\ UNCHANGED <<scrVars, atmVars, dragVars, kepVars, forceVars, restartVars, ccsdsVars, bundleVars, schemaVars, twinVars, paretoVars, argvVars, packVars, histVars, runDirVars, monoVars>>
    \/ GtLoopStep /\ UNCHANGED <<scrVars, atmVars, dragVars, kepVars, forceVars, restartVars, ccsdsVars, bundleVars, schemaVars, twinVars, paretoVars, argvVars, packVars, histVars, runDirVars, monoVars>>
    \/ GtReturn /\ UNCHANGED <<scrVars, atmVars, dragVars, kepVars, forceVars, restartVars, ccsdsVars, bundleVars, schemaVars, twinVars, paretoVars, argvVars, packVars, histVars, runDirVars, monoVars>>
    \/ GtCallAgain /\ UNCHANGED <<scrVars, atmVars, dragVars, kepVars, forceVars, ccsdsVars, bundleVars, schemaVars, twinVars, paretoVars, argvVars, packVars, histVars, runDirVars, monoVars>>

SpecRestart == InitRestart /\ [][NextRestart]_vars

InitCcsds ==
    /\ ccsds_type \in MessageTypes
    /\ ccsds_record \in OmmRecords \cup OemRecords
    /\ ccsds_ts \in SourceTimestamps
    /\ env_out = None /\ rt_env = None /\ env_tamper = "none"
    /\ rt_arg = None /\ rt_out = None /\ rt_count = 0
    /\ ccsds_file = None /\ file_tamper = "none" /\ read_out = None
    /\ ScrIdle /\ AtmIdle /\ DragIdle /\ KepIdle /\ GtIdle /\ ForceIdle /\ RestartIdle /\ BundleIdle /\ SchemaIdle /\ TwinIdle /\ ParetoIdle /\ ArgvIdle /\ PackIdle /\ HistIdle /\ RunDirIdle /\ MonoIdle

NextCcsds ==
    \/ CallEnvelopeFromRecord /\ UNCHANGED <<scrVars, atmVars, dragVars, kepVars, gtVars, forceVars, restartVars, bundleVars, schemaVars, twinVars, paretoVars, argvVars, packVars, histVars, runDirVars, monoVars>>
    \/ CallRoundtripEnvelope /\ UNCHANGED <<scrVars, atmVars, dragVars, kepVars, gtVars, forceVars, restartVars, bundleVars, schemaVars, twinVars, paretoVars, argvVars, packVars, histVars, runDirVars, monoVars>>
    \/ TamperEnvelope /\ UNCHANGED <<scrVars, atmVars, dragVars, kepVars, gtVars, forceVars, restartVars, bundleVars, schemaVars, twinVars, paretoVars, argvVars, packVars, histVars, runDirVars, monoVars>>
    \/ WriteCcsdsEnvelope /\ UNCHANGED <<scrVars, atmVars, dragVars, kepVars, gtVars, forceVars, restartVars, bundleVars, schemaVars, twinVars, paretoVars, argvVars, packVars, histVars, runDirVars, monoVars>>
    \/ TamperFile /\ UNCHANGED <<scrVars, atmVars, dragVars, kepVars, gtVars, forceVars, restartVars, bundleVars, schemaVars, twinVars, paretoVars, argvVars, packVars, histVars, runDirVars, monoVars>>
    \/ ReadCcsdsEnvelope /\ UNCHANGED <<scrVars, atmVars, dragVars, kepVars, gtVars, forceVars, restartVars, bundleVars, schemaVars, twinVars, paretoVars, argvVars, packVars, histVars, runDirVars, monoVars>>

SpecCcsds == InitCcsds /\ [][NextCcsds]_vars

InitBundle ==
    /\ rb_inputs \in BundleInputs
    /\ rb_outputs \in BundleOutputs
    /\ rb_software_refs \in BundleSoftwareRefs
    /\ bundle_file = None /\ bundle_tamper = "none" /\ replay_out = None
    /\ ScrIdle /\ AtmIdle /\ DragIdle /\ KepIdle /\ GtIdle /\ ForceIdle /\ RestartIdle /\ CcsdsIdle /\ SchemaIdle /\ TwinIdle /\ ParetoIdle /\ ArgvIdle /\ PackIdle /\ HistIdle /\ RunDirIdle /\ MonoIdle

NextBundle ==
    \/ CallCreateReplayBundle /\ UNCHANGED <<scrVars, atmVars, dragVars, kepVars, gtVars, forceVars, restartVars, ccsdsVars, schemaVars, twinVars, paretoVars, argvVars, packVars, histVars, runDirVars, monoVars>>
    \/ TamperBundleFile /\ UNCHANGED <<scrVars, atmVars, dragVars, kepVars, gtVars, forceVars, restartVars, ccsdsVars, schemaVars, twinVars, paretoVars, argvVars, packVars, histVars, runDirVars, monoVars>>
    \/ CallReplayBundle /\ UNCHANGED <<scrVars, atmVars, dragVars, kepVars, gtVars, forceVars, restartVars, ccsdsVars, schemaVars, twinVars, paretoVars, argvVars, packVars, histVars, runDirVars, monoVars>>

SpecBundle == InitBundle /\ [][NextBundle]_vars

InitSchema ==
    /\ previous_fields \in SUBSET FieldNames
    /\ current_fields \in SUBSET FieldNames
    /\ migration_notes \in MigrationNotes
    /\ version_bumped \in BOOLEAN
    /\ compat_out = None
    /\ ScrIdle /\ AtmIdle /\ DragIdle /\ KepIdle /\ GtIdle /\ ForceIdle /\ RestartIdle /\ CcsdsIdle /\ BundleIdle /\ TwinIdle /\ ParetoIdle /\ ArgvIdle /\ PackIdle /\ HistIdle /\ RunDirIdle /\ MonoIdle

NextSchema ==
    \/ CallEvaluateSchemaCompatibility /\ UNCHANGED <<scrVars, atmVars, dragVars, kepVars, gtVars, forceVars, restartVars, ccsdsVars, bundleVars, twinVars, paretoVars, argvVars, packVars, histVars, runDirVars, monoVars>>

SpecSchema == InitSchema /\ [][NextSchema]_vars

InitTwin ==
    /\ states \in StateLists
    /\ twin_out = None
    /\ ScrIdle /\ AtmIdle /\ DragIdle /\ KepIdle /\ GtIdle /\ ForceIdle /\ RestartIdle /\ CcsdsIdle /\ BundleIdle /\ SchemaIdle /\ ParetoIdle /\ ArgvIdle /\ PackIdle /\ HistIdle /\ RunDirIdle /\ MonoIdle

NextTwin ==
    \/ CallValidateTwinContinuity /\ UNCHANGED <<scrVars, atmVars, dragVars, kepVars, gtVars, forceVars, restartVars, ccsdsVars, bundleVars, schemaVars, paretoVars, argvVars, packVars, histVars, runDirVars, monoVars>>

SpecTwin == InitTwin /\ [][NextTwin]_vars

InitPareto ==
    /\ cost_points \in PointLists
    /\ pf_i = 0 /\ front = <<>> /\ pf_pc = "entry" /\ pf_out = None
    /\ ScrIdle /\ AtmIdle /\ DragIdle /\ KepIdle /\ GtIdle /\ ForceIdle /\ RestartIdle /\ CcsdsIdle /\ BundleIdle /\ SchemaIdle /\ TwinIdle /\ ArgvIdle /\ PackIdle /\ HistIdle /\ RunDirIdle /\ MonoIdle

NextPareto ==
    \/ ParetoEntry /\ UNCHANGED <<scrVars, atmVars, dragVars, kepVars, gtVars, forceVars, restartVars, ccsdsVars, bundleVars, schemaVars, twinVars, argvVars, packVars, histVars, runDirVars, monoVars>>
    \/ ParetoLoopStep /\ UNCHANGED <<scrVars, atmVars, dragVars, kepVars, gtVars, forceVars, restartVars, ccsdsVars, bundleVars, schemaVars, twinVars, argvVars, packVars, histVars, runDirVars, monoVars>>
    \/ ParetoReturn /\ UNCHANGED <<scrVars, atmVars, dragVars, kepVars, gtVars, forceVars, restartVars, ccsdsVars, bundleVars, schemaVars, twinVars, argvVars, packVars, histVars, runDirVars, monoVars>>

SpecPareto == InitPareto /\ [][NextPareto]_vars

InitArgv ==
    /\ argv \in Argvs
    /\ argv_given = argv
    /\ rw_out = None /\ rw_again = None
    /\ ScrIdle /\ AtmIdle /\ DragIdle /\ KepIdle /\ GtIdle /\ ForceIdle /\ RestartIdle /\ CcsdsIdle /\ BundleIdle /\ SchemaIdle /\ ParetoIdle /\ TwinIdle /\ PackIdle /\ HistIdle /\ RunDirIdle /\ MonoIdle

NextArgv ==
    \/ CallRewriteLegacyArgv /\ UNCHANGED <<scrVars, atmVars, dragVars, kepVars, gtVars, forceVars, restartVars, ccsdsVars, bundleVars, schemaVars, paretoVars, twinVars, packVars, histVars, runDirVars, monoVars>>
    \/ CallRewriteAgain /\ UNCHANGED <<scrVars, atmVars, dragVars, kepVars, gtVars, forceVars, restartVars, ccsdsVars, bundleVars, schemaVars, paretoVars, twinVars, packVars, histVars, runDirVars, monoVars>>

SpecArgv == InitArgv /\ [][NextArgv]_vars

InitPacks ==
    /\ miss_distance_m \in MissDistances
    /\ base_collision_probability \in BasePcs
    /\ profile_name = "" /\ prof_out = Idle /\ scr_out = Idle
    /\ pack_out = [name \in KnownProfiles |-> None]
    /\ AtmIdle /\ DragIdle /\ KepIdle /\ GtIdle /\ ForceIdle /\ RestartIdle /\ CcsdsIdle /\ BundleIdle /\ SchemaIdle /\ ParetoIdle /\ ArgvIdle /\ TwinIdle /\ HistIdle /\ RunDirIdle /\ MonoIdle

NextPacks ==
    \/ CallUnderPack /\ UNCHANGED <<scrVars, atmVars, dragVars, kepVars, gtVars, forceVars, restartVars, ccsdsVars, bundleVars, schemaVars, paretoVars, argvVars, twinVars, histVars, runDirVars, monoVars>>

SpecPacks == InitPacks /\ [][NextPacks]_vars

InitHistory ==
    /\ out_root \in {"docs/gmat-parity-runs", "out"}
    /\ history_file = Absent
    /\ hist_args = None /\ history = None
    /\ hist_calls = <<>> /\ hist_paths = <<>>
    /\ ScrIdle /\ AtmIdle /\ DragIdle /\ KepIdle /\ GtIdle /\ ForceIdle /\ RestartIdle /\ CcsdsIdle /\ BundleIdle /\ SchemaIdle /\ ParetoIdle /\ ArgvIdle /\ PackIdle /\ TwinIdle /\ RunDirIdle /\ MonoIdle

NextHistory ==
    \/ HistoryRead /\ UNCHANGED <<scrVars, atmVars, dragVars, kepVars, gtVars, forceVars, restartVars, ccsdsVars, bundleVars, schemaVars, paretoVars, argvVars, packVars, twinVars, runDirVars, monoVars>>
    \/ HistoryWrite /\ UNCHANGED <<scrVars, atmVars, dragVars, kepVars, gtVars, forceVars, restartVars, ccsdsVars, bundleVars, schemaVars, paretoVars, argvVars, packVars, twinVars, runDirVars, monoVars>>

SpecHistory == InitHistory /\ [][NextHistory]_vars

InitRunDir ==
    /\ index_file = Absent /\ latest_file = "" /\ run_dirs = {}
    /\ nrd_pc = [p \in Invocations |-> "start"]
    /\ nrd_index = [p \in Invocations |-> None]
    /\ run_number = [p \in Invocations |-> 0]
    /\ nrd_out = [p \in Invocations |-> None]
    /\ ScrIdle /\ AtmIdle /\ DragIdle /\ KepIdle /\ GtIdle /\ ForceIdle /\ RestartIdle /\ CcsdsIdle /\ BundleIdle /\ SchemaIdle /\ ParetoIdle /\ ArgvIdle /\ PackIdle /\ HistIdle /\ TwinIdle /\ MonoIdle

NextRunDir ==
    \/ \E p \in Invocations : NextRunDirRead(p) /\ UNCHANGED <<scrVars, atmVars, dragVars, kepVars, gtVars, forceVars, restartVars, ccsdsVars, bundleVars, schemaVars, paretoVars, argvVars, packVars, histVars, twinVars, monoVars>>
    \/ \E p \in Invocations : NextRunDirMkdir(p) /\ UNCHANGED <<scrVars, atmVars, dragVars, kepVars, gtVars, forceVars, restartVars, ccsdsVars, bundleVars, schemaVars, paretoVars, argvVars, packVars, histVars, twinVars, monoVars>>
    \/ \E p \in Invocations : NextRunDirOpenIndex(p) /\ UNCHANGED <<scrVars, atmVars, dragVars, kepVars, gtVars, forceVars, restartVars, ccsdsVars, bundleVars, schemaVars, paretoVars, argvVars, packVars, histVars, twinVars, monoVars>>
    \/ \E p \in Invocations : NextRunDirWriteIndex(p) /\ UNCHANGED <<scrVars, atmVars, dragVars, kepVars, gtVars, forceVars, restartVars, ccsdsVars, bundleVars, schemaVars, paretoVars, argvVars, packVars, histVars, twinVars, monoVars>>
    \/ \E p \in Invocations : NextRunDirReturn(p) /\ UNCHANGED <<scrVars, atmVars, dragVars, kepVars, gtVars, forceVars, restartVars, ccsdsVars, bundleVars, schemaVars, paretoVars, argvVars, packVars, histVars, twinVars, monoVars>>

SpecRunDir == InitRunDir /\ [][NextRunDir]_vars

InitMonotone ==
    /\ h1 \in Altitudes
    /\ h2 \in {h \in Altitudes : h1 <= h /\ h <= h1 + MaxGap}
    /\ density_h1 = Idle /\ density_h2 = Idle
    /\ ScrIdle /\ AtmIdle /\ DragIdle /\ KepIdle /\ GtIdle /\ ForceIdle /\ RestartIdle /\ CcsdsIdle /\ BundleIdle /\ SchemaIdle /\ ParetoIdle /\ ArgvIdle /\ PackIdle /\ HistIdle /\ RunDirIdle /\ TwinIdle

NextMonotone ==
    \/ CallDensityAtH1 /\ UNCHANGED <<scrVars, atmVars, dragVars, kepVars, gtVars, forceVars, restartVars, ccsdsVars, bundleVars, schemaVars, paretoVars, argvVars, packVars, histVars, runDirVars, twinVars>>
    \/ CallDensityAtH2 /\ UNCHANGED <<scrVars, atmVars, dragVars, kepVars, gtVars, forceVars, restartVars, ccsdsVars, bundleVars, schemaVars, paretoVars, argvVars, packVars, histVars, runDirVars, twinVars>>

SpecMonotone == InitMonotone /\ [][NextMonotone]_vars

InitForce ==
    /\ force_models \in ForceLists
    /\ force_out = None
    /\ ScrIdle /\ AtmIdle /\ DragIdle /\ KepIdle /\ GtIdle /\ RestartIdle /\ CcsdsIdle /\ BundleIdle /\ SchemaIdle /\ TwinIdle /\ ParetoIdle /\ ArgvIdle /\ PackIdle /\ HistIdle /\ RunDirIdle /\ MonoIdle

NextForce ==
    \/ CallComposeForces /\ UNCHANGED <<scrVars, atmVars, dragVars, kepVars, gtVars, restartVars, ccsdsVars, bundleVars, schemaVars, twinVars, paretoVars, argvVars, packVars, histVars, runDirVars, monoVars>>

SpecForce == InitForce /\ [][NextForce]_vars

(***************************************************************************)
(* Properties                                                              *)
(***************************************************************************)

\* C1: for every miss distance, every base collision probability (negative values and
\* values above 1 included) and every known profile name, evaluate_profiled_screening
\* returns a band with 0 <= lower <= nominal <= upper <= 1.
C1_BandOrdered ==
    (scr_out # None /\ profile_name \in {"conservative", "nominal", "aggressive"}) =>
        /\ scr_out.kind = "result"
        /\ 0 <= scr_out.lower
        /\ scr_out.lower <= scr_out.nominal
        /\ scr_out.nominal <= scr_out.upper
        /\ scr_out.upper <= BandOne

\* A band was returned for a base probability above 1 under the conservative pack, and
\* it is the clamped band <<0.7, 1, 1>>.
C1_Witness ==
    /\ scr_out.kind = "result"
    /\ profile_name = "conservative"
    /\ base_collision_probability > PcOne
    /\ scr_out.nominal = BandOne /\ scr_out.upper = BandOne
    /\ scr_out.lower = (7 * BandOne) \div 10

InRange100_2000 == 100 * AltRes <= altitude_km /\ altitude_km <= 2000 * AltRes

\* C2: atmospheric_density returns a value for every altitude in [100, 2000] km, both
\* endpoints included, and raises ValueError for every altitude below 100 or above
\* 2000, without entering the search, returning or clamping.
C2_RangeChecked ==
    /\ atm_pc \in {"loop", "returned"} => InRange100_2000
    /\ atm_pc = "returned" => atm_out.kind = "density"
    /\ atm_pc = "raised" => (~InRange100_2000 /\ atm_out = ValueError)
    /\ (atm_pc = "entry" /\ ~InRange100_2000) => ~ENABLED AtmSearchStep

\* The call at the upper endpoint, 2000 km, has returned a density.
C2_Witness ==
    /\ atm_pc = "returned"
    /\ altitude_km = 2000 * AltRes
    /\ atm_out.kind = "density"

\* The row with the greatest base altitude that is <= alt.
BracketingRow(alt) ==
    CHOOSE i \in DOMAIN AtmosphereTable :
        /\ AtmosphereTable[i].h_base * AltRes <= alt
        /\ \A j \in DOMAIN AtmosphereTable :
              AtmosphereTable[j].h_base * AltRes <= alt =>
                  AtmosphereTable[j].h_base <= AtmosphereTable[i].h_base

\* C3: for every altitude in [100, 2000] km the exponential is evaluated from the
\* bracketing row, the row with the greatest base altitude <= h; at a table base
\* altitude the result is that row's base density (the exponent is zero).
C3_BracketingRow ==
    atm_pc = "returned" =>
        LET b == BracketingRow(altitude_km) IN
        /\ atm_out.row = b
        /\ (altitude_km = AtmosphereTable[b].h_base * AltRes =>
               /\ atm_out.dh = 0
               /\ atm_out.rho_m = AtmosphereTable[b].rho_m
               /\ atm_out.rho_e = AtmosphereTable[b].rho_e)

NonPositiveConfig == drag_config.mass_kg <= 0 \/ drag_config.area_m2 <= 0

\* C4: a DragConfig with mass_kg <= 0 or area_m2 <= 0 is rejected when it is used:
\* ballistic_coefficient, drag_acceleration and semi_major_axis_decay_rate never
\* return a number for it.
C4_NonPositiveRejected ==
    NonPositiveConfig =>
        /\ bc_out.kind # "number"
        /\ acc_out.kind # "number"
        /\ decay_out.kind # "number"

\* C5: get_screening_profile and evaluate_profiled_screening raise ValueError for every
\* name other than exactly 'conservative', 'nominal' or 'aggressive' and produce no
\* result; for each of the three names the pack returned has that profile_id.
C5_UnknownProfileRaises ==
    LET known == profile_name \in {"conservative", "nominal", "aggressive"} IN
    /\ (prof_out # None /\ ~known) => prof_out = ValueError
    /\ (scr_out # None /\ ~known) => scr_out = ValueError
    /\ (prof_out # None /\ known) =>
           (prof_out # ValueError /\ prof_out.profile_id = profile_name)
    /\ (scr_out # None /\ known) =>
           (scr_out.kind = "result" /\ scr_out.profile.profile_id = profile_name)

\* Both calls were made with a name that differs from a key only in case, and both raised.
C5_Witness ==
    /\ profile_name = "Conservative"
    /\ prof_out = ValueError
    /\ scr_out = ValueError

Perms(n) == {f \in [1..n -> 1..n] : \A i, j \in 1..n : f[i] = f[j] => i = j}
Permuted(ms, f) == [i \in 1..Len(ms) |-> ms[f[i]]]

\* The real number that is the sum of component j of the accelerations of ms.
RECURSIVE ExactComponentSum(_, _, _)
ExactComponentSum(ms, j, i) ==
    IF i > Len(ms) THEN SZero
    ELSE SExactAdd(ms[i].acc[j], ExactComponentSum(ms, j, i + 1))

\* |x - y|, and |x - y| < 1e-18.
AbsDiff(x, y) == SExactAdd(x, SNegate(y)).mag
Within1e18(x, y) ==
    NatCmp(NatMulSmall(NatMulSmall(NatMulSmall(AbsDiff(x, y), Mega), Mega), Mega),
           NatShiftLeft(<<1>>, FracBits)) < 0

NonPositiveStep == TdNeg(gt_step) \/ TdZero(gt_step)

\* C8: for every step that is zero or negative compute_ground_track raises ValueError,
\* and it does so before the orbit is derived and before any point is computed or
\* returned; the sampling loop is never entered.
C8_NonPositiveStepRaises ==
    (NonPositiveStep /\ gt_pc # "entry") =>
        /\ gt_pc = "raised"
        /\ gt_out = ValueError
        /\ points = <<>> /\ orbit = None /\ duration_seconds = None

\* The call with a zero step and a ninety-minute duration has raised.
C8_Witness ==
    /\ gt_pc = "raised" /\ gt_out = ValueError
    /\ TdZero(gt_step)
    /\ gt_duration = Timedelta(5400, 0)
    /\ points = <<>>

\* floor(d / st), for st > 0 and d >= 0.
FloorSteps(d, st) ==
    CHOOSE k \in 0..(MaxSteps + 1) :
        TdLeq(TdTimes(st, k), d) /\ ~TdLeq(TdTimes(st, k + 1), d)

\* C9: for every step > 0 and every duration >= 0 the loop ends (it never computes more
\* than floor(duration / step) + 1 points) and compute_ground_track returns exactly
\* floor(duration / step) + 1 points.
C9_PointCount ==
    /\ gt_pc = "loop" => Len(points) <= FloorSteps(gt_duration, gt_step) + 1
    /\ gt_pc = "returned" =>
           Len(gt_out.points) = FloorSteps(gt_duration, gt_step) + 1

\* C10: the k-th point (from 0) has time start + k * step, no point lies after
\* start + duration, and the last point returned has time start + duration whenever
\* duration is a whole multiple of step.  Times are offsets from start.
C10_TimeMonotonic ==
    /\ \A k \in 1..Len(points) :
          /\ points[k].time = TdTimes(gt_step, k - 1)
          /\ TdLeq(points[k].time, gt_duration)
    /\ (gt_pc = "returned"
           /\ gt_duration = TdTimes(gt_step, FloorSteps(gt_duration, gt_step))) =>
           gt_out.points[Len(gt_out.points)].time = gt_duration

NonNumeric(v) == float(v) \in {TypeError, ValueError}
IsListOfLength(v, n) == v.kind = "list" /\ Len(v.items) = n

\* The malformations of a record: a required field is missing, MEAN_MOTION is not
\* numeric or not positive, ECCENTRICITY is not numeric or negative; EPOCHS is not a
\* non-empty list, or a state series is not a list of the length of EPOCHS.
MalformedOmm(record) ==
    IF REQUIRED_OMM_FIELDS \ DOMAIN record # {} THEN TRUE
    ELSE \/ NonNumeric(record["MEAN_MOTION"]) \/ LeqZero(float(record["MEAN_MOTION"]))
         \/ NonNumeric(record["ECCENTRICITY"]) \/ LessZero(float(record["ECCENTRICITY"]))
MalformedOem(record) ==
    IF REQUIRED_OEM_FIELDS \ DOMAIN record # {} THEN TRUE
    ELSE IF record["EPOCHS"].kind # "list" \/ record["EPOCHS"].items = <<>> THEN TRUE
    ELSE \E i \in 1..Len(StateSeries) :
            ~IsListOfLength(record[StateSeries[i]], Len(record["EPOCHS"].items))
Malformed(message_type, record) ==
    CASE Upper(message_type) = "OMM" -> MalformedOmm(record)
      [] Upper(message_type) = "OEM" -> MalformedOem(record)
      [] OTHER -> TRUE

\* C12: envelope_from_record either returns an envelope or raises CcsdsValidationError,
\* and every malformed record or unsupported message type is rejected with
\* CcsdsValidationError, never with another exception type.
C12_OnlyCcsdsValidationError ==
    env_out # None =>
        /\ env_out.kind \in {"envelope", "CcsdsValidationError"}
        /\ Malformed(ccsds_type, ccsds_record) => env_out.kind = "CcsdsValidationError"

\* C13: every envelope returned by envelope_from_record has the upper-cased request,
\* 'OMM' or 'OEM', as its message_type, a payload with every required field of that
\* type (for OEM a non-empty EPOCHS list and six state series that are lists of its
\* length), and the stable hash of that payload as its provenance_hash.
C13_EnvelopeWellFormed ==
    env_out.kind = "envelope" =>
        /\ env_out.message_type \in {"OMM", "OEM"}
        /\ env_out.message_type = Upper(ccsds_type)
        /\ env_out.message_type = "OMM" => REQUIRED_OMM_FIELDS \subseteq DOMAIN env_out.payload
        /\ env_out.message_type = "OEM" =>
              /\ REQUIRED_OEM_FIELDS \subseteq DOMAIN env_out.payload
              /\ env_out.payload["EPOCHS"].kind = "list"
              /\ env_out.payload["EPOCHS"].items # <<>>
              /\ \A i \in 1..Len(StateSeries) :
                    IsListOfLength(env_out.payload[StateSeries[i]],
                                   Len(env_out.payload["EPOCHS"].items))
        /\ env_out.provenance_hash = stable_hash(env_out.payload)

\* An OEM envelope was returned for the request 'Oem', with MaxEpochs epochs.
C13_Witness ==
    /\ env_out.kind = "envelope"
    /\ ccsds_type = "Oem"
    /\ env_out.message_type = "OEM"
    /\ Len(env_out.payload["EPOCHS"].items) = MaxEpochs
    /\ Len(env_out.payload["Z_DOT"].items) = MaxEpochs

HashMismatch(e) == e.provenance_hash # stable_hash(e.payload)
RejectedAsMismatch(x) ==
    /\ IsValueError(x)
    /\ x.msg = "Envelope provenance hash mismatch after transform"

\* C15: an envelope returned by roundtrip_envelope or read_ccsds_envelope carries the
\* stable hash of its payload, and an envelope or a file whose stored hash does not
\* match its payload is rejected with the ValueError 'provenance hash mismatch'.
C15_ProvenanceVerified ==
    /\ rt_out.kind = "envelope" => ~HashMismatch(rt_out)
    /\ read_out.kind = "envelope" => ~HashMismatch(read_out)
    /\ (rt_arg # None /\ HashMismatch(rt_arg)) => RejectedAsMismatch(rt_out)
    /\ (read_out # None /\ HashMismatch(ccsds_file)) => RejectedAsMismatch(read_out)

\* The file's stored hash was replaced and the file was read, and a payload value of
\* an envelope was changed and the envelope was round-tripped: both were rejected.
C15_Witness ==
    /\ file_tamper = "hash" /\ RejectedAsMismatch(read_out)
    /\ env_tamper = "value" /\ RejectedAsMismatch(rt_out)

\* Some string value at some nesting depth of v, inside dicts, lists or tuples, starts
\* with "/" or contains ":\".
RECURSIVE AnyAbsolute(_)
AnyAbsolute(v) ==
    \/ v.kind = "str" /\ (v.s \in StartsWithSlash \/ v.s \in ContainsDriveColon)
    \/ v.kind = "dict" /\ \E i \in 1..Len(v.pairs) : AnyAbsolute(v.pairs[i][2])
    \/ v.kind \in {"list", "tuple"} /\ \E i \in 1..Len(v.items) : AnyAbsolute(v.items[i])

\* C16: replay_bundle applied to the file create_replay_bundle wrote returns a manifest
\* with schema_version 'replay_bundle_v1' and with the inputs, outputs and
\* software_refs that were given, whenever none of them holds an absolute-path string.
C16_ReplayReturnsWhatWasBundled ==
    (/\ replay_out # None /\ bundle_tamper = "none"
     /\ ~AnyAbsolute(rb_inputs) /\ ~AnyAbsolute(rb_outputs)
     /\ ~AnyAbsolute(rb_software_refs)) =>
        /\ replay_out.kind = "manifest"
        /\ DictGet(replay_out.manifest, Str("schema_version")) = Str("replay_bundle_v1")
        /\ DictGet(replay_out.manifest, Str("inputs")) = rb_inputs
        /\ DictGet(replay_out.manifest, Str("outputs")) = rb_outputs
        /\ DictGet(replay_out.manifest, Str("software_refs")) = rb_software_refs

IntegrityBroken(text) ==
    LET loaded == Loads(text) IN
    DictGet(loaded, Str("bundle_hash"))
        # PyDigest(Dumps(DictDel(loaded, Str("bundle_hash")), TRUE))

\* C18: if a field of the manifest was changed, added or removed after creation, or the
\* stored hash was changed, or the stored hash is for any reason not the hash of the
\* canonical encoding of the rest, replay_bundle raises ValueError and returns nothing.
C18_BrokenIntegrityRaises ==
    replay_out # None =>
        /\ bundle_tamper \in BreakingTampers => replay_out.kind = "ValueError"
        /\ IntegrityBroken(bundle_file) => replay_out.kind = "ValueError"
        /\ replay_out.kind = "manifest" => ~IntegrityBroken(bundle_file)

\* A field was added to the inputs of a bundle without absolute paths, and the replay
\* raised the hash mismatch.
C18_Witness ==
    /\ bundle_tamper = "added"
    /\ ~AnyAbsolute(Loads(bundle_file))
    /\ replay_out = ReplayError("Replay bundle hash mismatch")

\* The notes are blank after stripping whitespace: every character is whitespace.
BlankNotes == \A i \in 1..Len(migration_notes) : migration_notes[i] \in Whitespace

SomeFieldRemoved == \E f \in previous_fields : f \notin current_fields

\* C19: evaluate_schema_compatibility reports compatible = False exactly when some
\* previous field is missing from the current fields and the version was not bumped
\* or the migration notes are blank after stripping whitespace; requires_version_bump
\* is true exactly when some field was removed; adding fields alone (every previous
\* field still present) is never incompatible.
C19_CompatibilityGate ==
    compat_out # None /\ compat_out # Idle =>
        /\ (compat_out.compatible = FALSE) <=>
               (SomeFieldRemoved /\ (~version_bumped \/ BlankNotes))
        /\ compat_out.requires_version_bump <=> SomeFieldRemoved
        /\ previous_fields \subseteq current_fields => compat_out.compatible

\* A field was removed, the version was bumped, and the notes are whitespace only:
\* the result is incompatible.
C19_Witness ==
    /\ compat_out # None /\ compat_out # Idle
    /\ SomeFieldRemoved /\ version_bumped
    /\ migration_notes # <<>> /\ BlankNotes
    /\ compat_out.compatible = FALSE
    /\ compat_out.requires_version_bump

TwinReturned == twin_out # None /\ twin_out # Idle

\* What ok = True is claimed to require.
TwinContinuous ==
    /\ Len(states) >= 3
    /\ \A p \in {"design", "operations", "end_of_life"} :
           \E i \in 1..Len(states) : states[i].phase = p
    /\ \A i \in 1..Len(states) :
           states[i].parent_state_id # None =>
               \E j \in 1..Len(states) : states[j].state_id = states[i].parent_state_id.s

SomeParentAbsent ==
    \E i \in 1..Len(states) :
        /\ states[i].parent_state_id # None
        /\ \A j \in 1..Len(states) : states[j].state_id # states[i].parent_state_id.s

OrphanReasons == {"orphan state: " \o id : id \in StateIds}

\* C20 (as stated): validate_twin_continuity returns ok = True only if the list has at
\* least three states, holds each of the three phases, and every non-null parent is the
\* state_id of a state in the list; and any list holding a state whose parent is absent
\* gets ok = False with an 'orphan state' reason.
C20_OrphanAlwaysReported ==
    TwinReturned =>
        /\ twin_out.ok => TwinContinuous
        /\ SomeParentAbsent => ~twin_out.ok /\ twin_out.reason \in OrphanReasons

\* C20 (amended): ok = True only under the three conditions; a state whose parent is
\* absent always gives ok = False, and the reason is 'orphan state: <state_id>' of the
\* first such state when the list has at least three states and holds all three phases;
\* a shorter list or one lacking a phase is reported for that instead.
C20_OrphanReportedAfterLengthAndPhases ==
    TwinReturned =>
        /\ twin_out.ok => TwinContinuous
        /\ SomeParentAbsent => ~twin_out.ok
        /\ SomeParentAbsent /\ Len(states) >= 3
               /\ (\A p \in {"design", "operations", "end_of_life"} :
                       \E i \in 1..Len(states) : states[i].phase = p)
           => twin_out.reason = "orphan state: " \o states[FirstOrphan(states)].state_id
        /\ SomeParentAbsent /\ Len(states) < 3
           => twin_out.reason = "at least 3 states required"
        /\ SomeParentAbsent /\ Len(states) >= 3
               /\ (\E p \in {"design", "operations", "end_of_life"} :
                       \A i \in 1..Len(states) : states[i].phase # p)
           => twin_out.reason = "missing required lifecycle phases"

\* Three states holding all three phases, the first with an absent parent being s1:
\* rejected as an orphan.
C20_Witness ==
    /\ TwinReturned
    /\ Len(states) = 3 /\ SomeParentAbsent
    /\ ~twin_out.ok /\ twin_out.reason = "orphan state: s1"

\* The states, in the order given, move backwards in design -> operations ->
\* end_of_life: some state of a later phase is listed before a state of an earlier one.
MovesBackwards ==
    \E i \in 1..Len(states) : \E j \in 1..Len(states) :
        /\ i < j
        /\ InPhaseOrder(states[i].phase) /\ InPhaseOrder(states[j].phase)
        /\ PhaseIndex(states[j].phase) < PhaseIndex(states[i].phase)

\* C21: a list that passes the length, phase and parent checks and whose states, in
\* the order given, move backwards in the phase order is rejected with ok = False and
\* reason 'non-monotonic phase transition'.
C21_BackwardsOrderRejected ==
    TwinReturned /\ TwinContinuous /\ MovesBackwards =>
        /\ ~twin_out.ok
        /\ twin_out.reason = "non-monotonic phase transition"

\* Point j is at least as good as point i in all four objectives and strictly better
\* in one (indices from 0).
Dominated(i, j) ==
    LET a == cost_points[i + 1]
        b == cost_points[j + 1]
    IN  /\ FloatLeq(a.mission_performance, b.mission_performance)
        /\ FloatLeq(b.compute_cost_usd, a.compute_cost_usd)
        /\ FloatLeq(b.energy_kwh, a.energy_kwh)
        /\ FloatLeq(b.runtime_s, a.runtime_s)
        /\ (a.mission_performance # b.mission_performance
            \/ a.compute_cost_usd # b.compute_cost_usd
            \/ a.energy_kwh # b.energy_kwh
            \/ a.runtime_s # b.runtime_s)

PointIndices == 0..(Len(cost_points) - 1)

NonDominated == {i \in PointIndices : \A j \in PointIndices \ {i} : ~Dominated(i, j)}

OnFront == {pf_out.items[k] : k \in 1..Len(pf_out.items)}

\* C22: pareto_front_cost_energy returns, in ascending order and without repeats,
\* exactly the indices of the non-dominated points; the front is non-empty for a
\* non-empty input, and every omitted point is dominated by a point on the front.
C22_ParetoFront ==
    pf_pc = "done" =>
        /\ \A k \in 1..(Len(pf_out.items) - 1) : pf_out.items[k] < pf_out.items[k + 1]
        /\ OnFront = NonDominated
        /\ cost_points # <<>> => pf_out.items # <<>>
        /\ \A i \in PointIndices \ OnFront : \E j \in OnFront : Dominated(i, j)

\* Three points: one omitted because another dominates it, and two kept, one of them
\* a repeat of the other.
C22_Witness ==
    /\ pf_pc = "done"
    /\ Len(cost_points) = 3 /\ Len(pf_out.items) = 2
    /\ \E i \in PointIndices : \E j \in PointIndices :
           i # j /\ cost_points[i + 1] = cost_points[j + 1] /\ {i, j} = OnFront

LegacyFlags == {"--serve", "--import-opm", "--import-oem", "-i", "--input"}

\* xs without the n elements from position k on.
Dropped(xs, k, n) == [m \in 1..(Len(xs) - n) |-> IF m < k THEN xs[m] ELSE xs[m + n]]

Occurrences(xs, x) == {k \in 1..Len(xs) : xs[k] = x}

FirstOccurrence(xs, x) == CHOOSE k \in Occurrences(xs, x) : \A m \in Occurrences(xs, x) : k <= m

\* The call was made on an argv of at least two elements whose argv[1] is not a
\* subcommand.
RewriteCalled ==
    /\ rw_out # None /\ rw_out # Idle
    /\ Len(argv_given) >= 2 /\ argv_given[2] \notin Subcommands

\* The returned argv is the given one with the flag at position k taken out and the
\* subcommand put at index 1.
ServeRewrittenAt(k) ==
    /\ argv_given[k] = "--serve"
    /\ Len(rw_out.new_argv) >= 2 /\ rw_out.new_argv[2] = "serve"
    /\ Dropped(rw_out.new_argv, 2, 1) = Dropped(argv_given, k, 1)

\* The same for an import flag at position k followed by its file: 'import' and the
\* kind at indices 1 and 2, the file at the end.
ImportRewrittenAt(k, flag, kind) ==
    /\ k < Len(argv_given) /\ argv_given[k] = flag
    /\ Len(rw_out.new_argv) >= 3
    /\ rw_out.new_argv[2] = "import" /\ rw_out.new_argv[3] = kind
    /\ rw_out.new_argv[Len(rw_out.new_argv)] = argv_given[k + 1]
    /\ Dropped(Dropped(rw_out.new_argv, Len(rw_out.new_argv), 1), 2, 2) = Dropped(argv_given, k, 2)

\* The same for -i / --input at position k, the flag taken out.
GenerateRewrittenWithoutFlagAt(k) ==
    /\ argv_given[k] \in {"-i", "--input"}
    /\ Len(rw_out.new_argv) >= 2 /\ rw_out.new_argv[2] = "generate"
    /\ Dropped(rw_out.new_argv, 2, 1) = Dropped(argv_given, k, 1)

HasLegacyFlag ==
    \/ \E k \in 1..Len(argv_given) : argv_given[k] \in {"--serve", "-i", "--input"}
    \/ \E k \in 1..(Len(argv_given) - 1) : argv_given[k] \in {"--import-opm", "--import-oem"}

\* C23 (as stated): for every argv whose argv[1] is not a subcommand and that contains
\* a legacy flag, the returned argv has the matching subcommand at index 1, the legacy
\* flag removed, the import file moved to the end, the remaining arguments in their
\* order, and there is exactly one warning.
C23_LegacyFlagRemoved ==
    RewriteCalled /\ HasLegacyFlag =>
        /\ Len(rw_out.warnings) = 1
        /\ \E k \in 1..Len(argv_given) :
               \/ ServeRewrittenAt(k)
               \/ ImportRewrittenAt(k, "--import-opm", "opm")
               \/ ImportRewrittenAt(k, "--import-oem", "oem")
               \/ GenerateRewrittenWithoutFlagAt(k)

\* The import flag occurs, and its first occurrence is followed by an element.
ImportGiven(flag) ==
    /\ Occurrences(argv_given, flag) # {}
    /\ FirstOccurrence(argv_given, flag) < Len(argv_given)

\* C23 (amended): when moreover argv[0] is not --serve, --import-opm or --import-oem,
\* the first of --serve, --import-opm with a following element, --import-oem with a
\* following element, -i / --input that is present decides: its first occurrence (and
\* for an import the element after it) is taken out, the subcommand is put at index 1
\* ('import' and the kind at 1 and 2), the import file is put at the end, and the rest
\* keeps its order; -i / --input itself is not taken out, 'generate' is only put in
\* front of the arguments.  There is exactly one warning.
C23_FirstLegacyFlagRewritten ==
    RewriteCalled /\ HasLegacyFlag
        /\ argv_given[1] \notin {"--serve", "--import-opm", "--import-oem"} =>
        /\ Len(rw_out.warnings) = 1
        /\ IF Occurrences(argv_given, "--serve") # {}
           THEN ServeRewrittenAt(FirstOccurrence(argv_given, "--serve"))
           ELSE IF ImportGiven("--import-opm")
           THEN ImportRewrittenAt(FirstOccurrence(argv_given, "--import-opm"),
                                  "--import-opm", "opm")
           ELSE IF ImportGiven("--import-oem")
           THEN ImportRewrittenAt(FirstOccurrence(argv_given, "--import-oem"),
                                  "--import-oem", "oem")
           ELSE rw_out.new_argv = <<argv_given[1], "generate">> \o Tail(argv_given)
        /\ rw_out.new_argv[1] = argv_given[1]

\* An import flag with its file and one more argument after it: the file is moved
\* behind that argument.
C23_Witness ==
    /\ rw_out # None /\ rw_out # Idle
    /\ argv_given = <<"humeris", "--import-opm", "f", "-i">>
    /\ rw_out.new_argv = <<"humeris", "import", "opm", "-i", "f">>
    /\ Len(rw_out.warnings) = 1

\* The base probability times the pack's covariance_scale (quarters), clamped to
\* [0, 1], in band units.
ClampedNominal ==
    LET product == base_collision_probability * ProfilePacks[profile_name].covariance_scale4 * 10
    IN  IF product < 0 THEN 0 ELSE IF product > BandOne THEN BandOne ELSE product

\* C24: evaluate_profiled_screening sets flagged exactly when the miss distance is <=
\* the profile's threshold_m or the upper band value is >= 1e-4, where nominal is the
\* base probability times covariance_scale clamped to [0, 1] and upper is
\* min(1, 1.3 * nominal).
C24_FlaggedExactly ==
    (scr_out # None /\ scr_out # Idle /\ scr_out # ValueError) =>
        /\ scr_out.nominal = ClampedNominal
        /\ 10 * scr_out.upper = Min(10 * BandOne, 13 * scr_out.nominal)
        /\ scr_out.flagged <=>
               \/ miss_distance_m <= ProfilePacks[profile_name].threshold_m
               \/ scr_out.upper >= BandOne \div 10000

\* Under the aggressive pack a miss distance one metre above the threshold is flagged
\* by a base probability of 103e-6, whose upper value 1.3 * 0.75 * 103e-6 reaches 1e-4.
C24_Witness ==
    /\ scr_out # None /\ scr_out # Idle /\ scr_out # ValueError
    /\ profile_name = "aggressive" /\ miss_distance_m = 8001
    /\ base_collision_probability = 103
    /\ scr_out.flagged

\* The event has been evaluated under the pack and came out flagged.
FlaggedUnder(name) == pack_out[name] # None /\ pack_out[name].flagged

UnflaggedUnder(name) == pack_out[name] # None /\ ~pack_out[name].flagged

\* C27: for every miss distance and base collision probability, an event flagged under
\* 'aggressive' is also flagged under 'nominal', and an event flagged under 'nominal'
\* is also flagged under 'conservative'.
C27_FlaggingMonotone ==
    pack_out # Idle =>
        /\ ~(FlaggedUnder("aggressive") /\ UnflaggedUnder("nominal"))
        /\ ~(FlaggedUnder("nominal") /\ UnflaggedUnder("conservative"))

\* An event too far away for every threshold, flagged under the aggressive pack by its
\* probability alone, and flagged under the other two packs as well.
C27_Witness ==
    /\ pack_out # Idle
    /\ miss_distance_m > 25000
    /\ FlaggedUnder("aggressive") /\ FlaggedUnder("nominal") /\ FlaggedUnder("conservative")

AsRead(v) == Loads(Dumps(v, FALSE))

HistoryRuns == DictGet(Loads(history_file), Str("runs")).items

\* C25: after n successive calls of _update_profile_behavior_history on one out_root
\* the history file holds exactly n run entries, in call order, each as it was written
\* by its own call (so no later call changes it), and every call has returned the
\* same history path.
C25_HistoryAppendOnly ==
    history_file # Idle =>
        /\ Len(hist_calls) = 0 => history_file = Absent
        /\ Len(hist_calls) > 0 =>
               /\ history_file # Absent
               /\ Len(HistoryRuns) = Len(hist_calls)
               /\ \A k \in 1..Len(hist_calls) :
                      /\ DictGet(HistoryRuns[k], Str("run_id")) = Str(hist_calls[k].run_id)
                      /\ HistoryRuns[k] =
                             AsRead(HistoryEntry(hist_calls[k].run_id,
                                                 hist_calls[k].profile_behavior_annex))
        /\ Len(hist_paths) = Len(hist_calls)
        /\ \A k \in 1..Len(hist_paths) : hist_paths[k] = hist_paths[1]

\* Three calls have been made, the first and the last with different run ids, and the
\* file holds the three entries.
C25_Witness ==
    /\ history_file # Idle /\ history_file # Absent
    /\ Len(hist_calls) = 3 /\ Len(HistoryRuns) = 3
    /\ hist_calls[1].run_id = "run-0001-test" /\ hist_calls[3].run_id = "run-0002-test"
    /\ DictGet(HistoryRuns[1], Str("run_id")) = Str("run-0001-test")

\* The invocations that have taken a run number.
Numbered == {p \in Invocations : nrd_pc[p] \in {"read", "made", "opened", "written", "done"}}

AllFinished == \A p \in Invocations : nrd_pc[p] = "done"

LargestHandedOut == CHOOSE n \in {run_number[p] : p \in Invocations} :
                        \A p \in Invocations : run_number[p] <= n

\* C26: every invocation of _next_run_dir on one out_root gets a run number that no
\* other invocation gets, however the invocations interleave; and when they have all
\* finished, index.json's next_run is one more than the largest number handed out and
\* its runs list has one entry per invocation.
C26_RunNumbersUnique ==
    nrd_pc # <<>> =>
        /\ \A p \in Numbered : \A q \in Numbered : p # q => run_number[p] # run_number[q]
        /\ AllFinished =>
               /\ DictGet(Loads(index_file), Str("next_run")) = PyNum(LargestHandedOut + 1)
               /\ Len(DictGet(Loads(index_file), Str("runs")).items) = NumInvocations

\* The loop's bracket is a proper one inside the table.
BracketInTable == 0 <= lo /\ lo < hi /\ hi <= LastRow

\* C29: for every altitude in [100, 2000] the bracket search of atmospheric_density
\* keeps 0 <= lo < hi <= last index before and after every iteration, comes to an end,
\* and ends with hi = lo + 1, so that the row it reads, row lo, is a row of the table.
C29_BracketLoopTerminates ==
    /\ [](atm_pc \in {"loop", "returned"} => BracketInTable)
    /\ [](atm_pc = "returned" =>
             /\ hi = lo + 1
             /\ atm_out.row = lo
             /\ atm_out.row \in DOMAIN AtmosphereTable)
    /\ (atm_pc = "entry" /\ InRange100_2000) ~> (atm_pc = "returned")

\* The call at 100 km has come out of the loop with the bracket <<0, 1>>: every
\* iteration took the else branch.
C29_Witness ==
    /\ atm_pc = "returned"
    /\ altitude_km = 100 * AltRes
    /\ lo = 0 /\ hi = 1
    /\ atm_out.row = 0

\* 24 * (1 + n + n^2/2 + n^3/6 + n^4/24): the first five terms of 24 * exp(n), which
\* are below 24 * exp(x) for every x >= n >= 0.
ExpSeries24(n) == 24 + 24 * n + 12 * n * n + 4 * n * n * n + n * n * n * n

\* The whole scale heights in d's exponent: floor(dh / scale_height), dh being in
\* 1/AltRes km and the scale height in metres.
WholeScaleHeights(d) == (1000 * d.dh) \div (AltRes * d.scale_height_m)

\* d1 < d2 for certain, for d2 read at its row's base altitude (exp(0) = 1, so d2 is
\* the row's rho_base) from a row whose rho_base is written with an exponent at most
\* three below d1's:  d1 = rho1 * exp(-x) <= rho1 / (1 + n + ... + n^4/24) with
\* n = floor(x), and that bound is below rho2.  FALSE says nothing about d1 and d2.
CertainlyBelow(d1, d2) ==
    /\ d2.dh = 0
    /\ d1.dh >= 0
    /\ d1.rho_e - d2.rho_e \in 0..3
    /\ 24 * d1.rho_m * 10^(d1.rho_e - d2.rho_e) < d2.rho_m * ExpSeries24(WholeScaleHeights(d1))

BothDensities == density_h1 # Idle /\ density_h2 # Idle /\ density_h1.kind = "density" /\ density_h2.kind = "density"

\* C30: atmospheric_density is non-increasing in altitude over [100, 2000] km, segment
\* boundaries included: for h1 <= h2 in the range, density(h1) is never below
\* density(h2).
C30_DensityNonIncreasing ==
    BothDensities => ~CertainlyBelow(density_h1, density_h2)

\* Inside one segment the later altitude has the larger exponent of the same row.
NonIncreasingInsideSegment ==
    (BothDensities /\ density_h1.row = density_h2.row) =>
        /\ density_h1.rho_m = density_h2.rho_m /\ density_h1.rho_e = density_h2.rho_e
        /\ density_h1.scale_height_m = density_h2.scale_height_m
        /\ 0 <= density_h1.dh /\ density_h1.dh <= density_h2.dh

====
